---- MODULE Spec2Model ----
(***************************************************************************)
(* Verification model of the BoundaryAI reconciliation core:               *)
(*   src/src/topology.py    TopologyFixer   (fix_topology, validate)       *)
(*   src/src/ror_engine.py  RORConstraintEngine (match_segments_to_ror)    *)
(*   src/src/segmentation.py RORGuidedSegmenter._match_segments_to_ror     *)
(*   src/src/confidence.py  ConfidenceScorer, ConflictDetector             *)
(*                                                                         *)
(* Geometry.  A geometry is a set of cells of a GridW x GridH grid of      *)
(* square cells whose side is Unit.side linear units; a polygon is an      *)
(* edge-connected set, a set with several edge-connected parts is a        *)
(* MultiPolygon.  area, length (perimeter), bounds, touches, intersection, *)
(* difference and union are then exact.                                    *)
(*                                                                         *)
(* Numbers.  Areas are integers.  Costs, factors, weights, thresholds and  *)
(* scores are fixed-point integers in units of 1/Fp.one.                   *)
(***************************************************************************)
EXTENDS Integers, Sequences, FiniteSets, TLC

VARIABLES
    gdf,          \* the caller's parcel frame handed to the TopologyFixer
    fixer,        \* the TopologyFixer (its thresholds)
    fixed,        \* what fix_topology(gdf) returned: [status, rows]
    report,       \* what validate returned: [target, is_valid, ...]
    scoreArgs,    \* what a caller hands to ConfidenceScorer(...) and score_parcel
    scorer,       \* the ConfidenceScorer: [status, weights, den, thresholds]
    confidence,   \* the ParcelConfidence score_parcel returned
    engine,       \* the RORConstraintEngine (its records and statistics)
    segments,     \* the parcel frame handed to the matcher
    matched,      \* what the matcher returned
    scored,       \* what score_all_parcels returned for the matched frame
    solved,       \* the answers the assignment solver has given so far
    rematched,    \* what a second run of the matcher returned
    violations,   \* what RORConstraintEngine.detect_violations returned
    conflicts,    \* a conflict list (what detect_conflicts returned)
    summary,      \* what get_conflict_summary returned
    batch,        \* a batch run: its driver and the stages it has run
    column,       \* the confidence column of a parcel frame
    routes,       \* the routings and the statistics computed for the column
    evalArgs,     \* what a caller hands to ParcelEvaluator(...) and evaluate
    evaluation,   \* what evaluate returned
    constrained,  \* what apply_count_constraint returned
    heap,         \* the frame objects of a run: heap[id] is the value of object id
    calls         \* the stage calls made: [stage, input, before, output]

topoVars == <<gdf, fixer, fixed, report>>
scoreVars == <<scoreArgs, scorer, confidence>>
matchVars == <<engine, segments, matched, scored>>
conflictVars == <<violations, conflicts, summary>>
runVars == <<solved, rematched, batch>>
routeVars == <<column, routes>>
evalVars == <<evalArgs, evaluation>>
heapVars == <<heap, calls>>
stageVars == <<column, routes, evalArgs, evaluation, constrained, heap, calls>>
vars == <<gdf, fixer, fixed, report, scoreArgs, scorer, confidence,
          engine, segments, matched, scored,
          solved, rematched, violations, conflicts, summary, batch,
          column, routes, evalArgs, evaluation, constrained, heap, calls>>

(***************************************************************************)
(* Bounds of the model.                                                    *)
(***************************************************************************)
GridW == 3
MaxSegments == 3
MaxRecords == 3

\* the grid is GridW x Grid.h cells; a frame holds 1 to 3 parcels
Grid == [w |-> GridW, h |-> 2]
FrameSizes == 1 .. 3

\* side and area of one grid cell, in the linear unit of the thresholds
Unit == [side |-> 3, area |-> 9]

\* the fixed-point unit: the integer that stands for 1.0
Fp == [one |-> 1000]

\* None in a column of strings, None/NaN in a column of numbers (the code
\* treats the two alike), and float('inf')
None == "None"
NaN == 0 - 1
Inf == 0 - 2

Abs(n) == IF n < 0 THEN -n ELSE n
Min2(a, b) == IF a <= b THEN a ELSE b
Max2(a, b) == IF a >= b THEN a ELSE b

RECURSIVE SumOver(_, _)
\* sum of f[x] over the finite set S
SumOver(S, f) ==
    IF S = {} THEN 0
    ELSE LET x == CHOOSE y \in S : TRUE IN f[x] + SumOver(S \ {x}, f)

(***************************************************************************)
(* Geometry on the grid (shapely's operations on cell sets).               *)
(***************************************************************************)
Cells == 0 .. (Grid.w * Grid.h - 1)
CX(c) == c % Grid.w
CY(c) == c \div Grid.w

EdgeNeighbours(c, d) == Abs(CX(c) - CX(d)) + Abs(CY(c) - CY(d)) = 1
PointNeighbours(c, d) == Abs(CX(c) - CX(d)) <= 1 /\ Abs(CY(c) - CY(d)) <= 1

Rectangles ==
    { {c \in Cells : x0 <= CX(c) /\ CX(c) <= x1 /\ y0 <= CY(c) /\ CY(c) <= y1} :
        <<x0, x1, y0, y1>> \in { q \in (0 .. Grid.w - 1) \X (0 .. Grid.w - 1)
                                       \X (0 .. Grid.h - 1) \X (0 .. Grid.h - 1) :
                                   q[1] <= q[2] /\ q[3] <= q[4] } }

\* The geometries of the grid.  A function of the geometry alone is
\* tabulated over them once ("@@ <<>>" makes the table explicit) and looked
\* up afterwards.
Geometries == SUBSET Cells

\* geom.area
Area(g) == Cardinality(g) * Unit.area

\* geom.length: the perimeter, every cell side that is not shared with
\* another cell of the geometry
LengthTable ==
    [g \in Geometries |->
        Unit.side * (4 * Cardinality(g)
                     - Cardinality({p \in g \X g : EdgeNeighbours(p[1], p[2])}))] @@ <<>>
Length(g) == LengthTable[g]

\* geom.bounds, in cell-corner coordinates (minx, miny, maxx, maxy)
MinOf(S) == CHOOSE x \in S : \A y \in S : x <= y
MaxOf(S) == CHOOSE x \in S : \A y \in S : y <= x
BoundsTable ==
    [g \in Geometries \ {{}} |->
        [x0 |-> MinOf({CX(c) : c \in g}), x1 |-> MaxOf({CX(c) : c \in g}) + 1,
         y0 |-> MinOf({CY(c) : c \in g}), y1 |-> MaxOf({CY(c) : c \in g}) + 1]] @@ <<>>
Bounds(g) == BoundsTable[g]

\* the rectangle Polygon built from bounds
Box(b) == {c \in Cells : b.x0 <= CX(c) /\ CX(c) < b.x1 /\ b.y0 <= CY(c) /\ CY(c) < b.y1}

\* bounding boxes that intersect (closed boxes: touching counts), the
\* candidate test of sindex.intersection
BoundsIntersect(a, b) ==
    a.x0 <= b.x1 /\ b.x0 <= a.x1 /\ a.y0 <= b.y1 /\ b.y0 <= a.y1

\* a.intersects(b): some point in common
Intersects(g, h) == \E c \in g, d \in h : PointNeighbours(c, d)

\* a.touches(b): some point in common, but no interior point
Touches(g, h) == g \cap h = {} /\ Intersects(g, h)

RECURSIVE Reach(_, _)
Reach(front, g) ==
    LET next == front \cup {d \in g : \E c \in front : EdgeNeighbours(c, d)}
    IN IF next = front THEN front ELSE Reach(next, g)

\* the polygons of a (Multi)Polygon: its edge-connected parts
PartsTable == [g \in Geometries |-> { Reach({c}, g) : c \in g }] @@ <<>>
Parts(g) == PartsTable[g]

\* corners of the cells of g, as lattice points <<x, y>>
Corners(g) ==
    UNION { { <<CX(c), CY(c)>>, <<CX(c) + 1, CY(c)>>,
              <<CX(c), CY(c) + 1>>, <<CX(c) + 1, CY(c) + 1>> } : c \in g }

Cross(p, q, r) == (q[1] - p[1]) * (r[2] - p[2]) - (q[2] - p[2]) * (r[1] - p[1])

\* the directed edges of the convex hull of the lattice points P, counter-
\* clockwise: every point lies to the left of or on the edge, and the points
\* on its line lie between its ends
HullEdges(P) ==
    { e \in P \X P :
        /\ e[1] # e[2]
        /\ \A r \in P :
              /\ Cross(e[1], e[2], r) >= 0
              /\ Cross(e[1], e[2], r) = 0 =>
                    /\ (r[1] - e[1][1]) * (r[1] - e[2][1]) <= 0
                    /\ (r[2] - e[1][2]) * (r[2] - e[2][2]) <= 0 }

\* twice geom.convex_hull.area (shoelace formula over the hull edges; twice,
\* because a lattice polygon's area is a multiple of half a cell)
ConvexHullTable ==
    [g \in Geometries |->
        LET E == HullEdges(Corners(g))
        IN Unit.area * SumOver(E, [e \in E |-> e[1][1] * e[2][2] - e[2][1] * e[1][2]])] @@ <<>>
ConvexHullArea2(g) == ConvexHullTable[g]

(***************************************************************************)
(* A GeoDataFrame is a sequence of rows [label, geom]; label is the index  *)
(* label of the row (a fresh frame has labels 0, 1, ...), its place in the *)
(* sequence is its position.                                               *)
(***************************************************************************)
Positions(rows) == 1 .. Len(rows)
Labels(rows) == {rows[i].label : i \in Positions(rows)}
PosOf(rows, l) == CHOOSE i \in Positions(rows) : rows[i].label = l
UnionOf(rows) == UNION {rows[i].geom : i \in Positions(rows)}
SetGeom(rows, l, g) == [rows EXCEPT ![PosOf(rows, l)].geom = g]
\* reset_index(drop=True)
ResetIndex(rows) == [i \in Positions(rows) |-> [label |-> i - 1, geom |-> rows[i].geom]]

(***************************************************************************)
(* TopologyFixer.  A fixer is the record of its four thresholds;           *)
(* sliver_threshold is the fraction <<numerator, denominator>>.            *)
(***************************************************************************)
gap_threshold == 10
overlap_threshold == 1
min_area == 10
DefaultSliverThreshold == <<1, 10>>

\* TopologyFixer(): the defaults; TopologyFixer(sliver_threshold=0.6) and
\* TopologyFixer(sliver_threshold=0.7), for which the thin rectangles of the
\* grid are slivers; TopologyFixer(gap_threshold=9.0), for which a gap of
\* one cell has exactly the area gap_threshold
FixerConfigs ==
    { [gap_threshold |-> gap_threshold, overlap_threshold |-> overlap_threshold,
       sliver_threshold |-> st, min_area |-> min_area] :
        st \in {DefaultSliverThreshold, <<6, 10>>, <<7, 10>>} }
    \cup { [gap_threshold |-> Unit.area, overlap_threshold |-> overlap_threshold,
            sliver_threshold |-> DefaultSliverThreshold, min_area |-> min_area] }

\* numerator and denominator of the approximation 355/113 of pi
PiApprox == <<355, 113>>

\* ipq < sliver_threshold, with ipq = 4 * pi * area / perimeter^2
IpqBelow(g, th) ==
    4 * PiApprox[1] * Area(g) * th[2] < th[1] * PiApprox[2] * Length(g) * Length(g)

\* is_sliver of _remove_slivers
is_sliver(g, fx) ==
    \/ g = {}
    \/ Length(g) = 0
    \/ IpqBelow(g, fx.sliver_threshold)

\* _fix_invalid_geometries: every geometry of the model is valid, so only
\* the empty ones are removed and of a MultiPolygon the largest part is kept
LargestPart(g) ==
    IF Cardinality(Parts(g)) <= 1 THEN g
    ELSE CHOOSE p \in Parts(g) : \A q \in Parts(g) : Area(q) <= Area(p)

_fix_invalid_geometries(rows) ==
    LET kept == SelectSeq(rows, LAMBDA r : r.geom # {})
    IN [i \in Positions(kept) |-> [kept[i] EXCEPT !.geom = LargestPart(@)]]

\* touches.geometry.area.idxmax(): the first row of the largest area among
\* the positions T
IdxMax(rows, T) ==
    CHOOSE i \in T :
        /\ \A j \in T : Area(rows[j].geom) <= Area(rows[i].geom)
        /\ \A j \in T : Area(rows[j].geom) = Area(rows[i].geom) => i <= j

RECURSIVE MergeSlivers(_, _, _)
\* the loop of _remove_slivers over the slivers from the k-th on
MergeSlivers(non, slivers, k) ==
    IF k > Len(slivers) THEN non
    ELSE LET s == slivers[k].geom
             touches == {i \in Positions(non) : Touches(non[i].geom, s)}
         IN IF touches = {} THEN MergeSlivers(non, slivers, k + 1)
            ELSE LET largest == IdxMax(non, touches)
                 IN MergeSlivers([non EXCEPT ![largest].geom = @ \cup s],
                                 slivers, k + 1)

_remove_slivers(rows, fx) ==
    LET non_slivers == SelectSeq(rows, LAMBDA r : ~is_sliver(r.geom, fx))
        slivers == SelectSeq(rows, LAMBDA r : is_sliver(r.geom, fx))
    IN IF Len(slivers) > 0 /\ Len(non_slivers) > 0
       THEN MergeSlivers(non_slivers, slivers, 1)
       ELSE non_slivers

\* the body of the inner loop of _fix_overlaps for the candidate q that
\* sindex.intersection returned (a position), compared with and looked up
\* as an index label; st = [rows, parcel, err]
OverlapStep(st, idx, q, fx) ==
    IF st.err THEN st
    ELSE IF q \notin Labels(st.rows) THEN [st EXCEPT !.err = TRUE]
    ELSE LET other == st.rows[PosOf(st.rows, q)].geom
             intersection == st.parcel \cap other
         IN IF Intersects(st.parcel, other)
                /\ Area(intersection) > fx.overlap_threshold
            THEN IF Area(st.parcel) >= Area(other)
                 THEN LET new_other == other \ intersection
                      IN IF new_other # {}
                         THEN [st EXCEPT !.rows = SetGeom(@, q, new_other)]
                         ELSE st
                 ELSE LET new_parcel == st.parcel \ intersection
                      IN IF new_parcel # {}
                         THEN [st EXCEPT !.rows = SetGeom(@, idx, new_parcel),
                                         !.parcel = new_parcel]
                         ELSE st
            ELSE st

RECURSIVE InnerOutcomes(_, _, _, _)
\* the inner loop over the candidates todo; the spatial index returns them
\* in no specified order, so every order is an outcome
InnerOutcomes(st, idx, todo, fx) ==
    IF todo = {} THEN {st}
    ELSE UNION { InnerOutcomes(OverlapStep(st, idx, q, fx), idx, todo \ {q}, fx) :
                    q \in todo }

RECURSIVE OuterOutcomes(_, _, _, _, _)
\* the outer loop of _fix_overlaps from position p on.  rows0 is the frame
\* when the loop (and the spatial index) was set up; st = [rows, err].
\* iterrows hands out the rows of rows0 when it copies the frame's values
\* (copied: a frame with more columns than the geometry) and the current
\* rows when it reads through to them (a single-block frame).
OuterOutcomes(st, rows0, p, fx, copied) ==
    IF p > Len(rows0) \/ st.err THEN {st}
    ELSE LET idx == rows0[p].label
             processed == {rows0[i].label : i \in 1 .. (p - 1)}
             parcel == IF copied THEN rows0[p].geom ELSE st.rows[p].geom
             possible_matches ==
                 {q \in 0 .. (Len(rows0) - 1) :
                     BoundsIntersect(Bounds(rows0[q + 1].geom), Bounds(parcel))}
             todo == {q \in possible_matches : ~(q <= idx \/ q \in processed)}
             after == IF idx \in processed
                      THEN {[rows |-> st.rows, parcel |-> parcel, err |-> FALSE]}
                      ELSE InnerOutcomes([rows |-> st.rows, parcel |-> parcel,
                                          err |-> FALSE], idx, todo, fx)
         IN UNION { OuterOutcomes([rows |-> a.rows, err |-> a.err],
                                  rows0, p + 1, fx, copied) : a \in after }

\* _fix_overlaps: the set of its outcomes [rows, err]; err is the KeyError
\* of gdf.loc[other_idx] for a position that is no index label
_fix_overlaps(rows, fx, copied) ==
    OuterOutcomes([rows |-> rows, err |-> FALSE], rows, 1, fx, copied)

\* parcel.geometry.boundary.intersection(gap_boundary).length
SharedLength(g, gap) ==
    Unit.side * Cardinality({p \in g \X gap : EdgeNeighbours(p[1], p[2])})

\* "if gap.area < 0.01: continue", as the fraction 1/100
NegligibleGap == <<1, 100>>

RECURSIVE FillEach(_, _, _)
\* the loop of _fill_gaps over the gap polygons.  Two gap polygons share no
\* edge, so the shared lengths do not depend on the order they are taken in.
FillEach(rows, gap_polygons, fx) ==
    IF gap_polygons = {} THEN rows
    ELSE LET gap == CHOOSE g \in gap_polygons : TRUE
             rest == gap_polygons \ {gap}
             best == CHOOSE i \in Positions(rows) :
                        /\ \A j \in Positions(rows) :
                              SharedLength(rows[j].geom, gap)
                                 <= SharedLength(rows[i].geom, gap)
                        /\ \A j \in Positions(rows) :
                              SharedLength(rows[j].geom, gap)
                                 = SharedLength(rows[i].geom, gap) => i <= j
         IN IF Area(gap) > fx.gap_threshold THEN FillEach(rows, rest, fx)
            ELSE IF Area(gap) * NegligibleGap[2] < NegligibleGap[1]
                 THEN FillEach(rows, rest, fx)
            ELSE IF SharedLength(rows[best].geom, gap) > 0
                 THEN FillEach([rows EXCEPT ![best].geom = @ \cup gap], rest, fx)
                 ELSE FillEach(rows, rest, fx)

\* _fill_gaps with the bounding box one cell too wide
FillGapsWideBox(rows, fx) ==
    IF Len(rows) < 2 THEN rows
    ELSE LET b == Bounds(UnionOf(rows))
             bbox == Box([b EXCEPT !.x1 = @ + 1])
             gaps == bbox \ UnionOf(rows)
         IN IF gaps = {} THEN rows ELSE FillEach(rows, Parts(gaps), fx)

_fill_gaps(rows, fx) ==
    IF Len(rows) < 2 THEN rows
    ELSE LET bbox == Box(Bounds(UnionOf(rows)))
             gaps == bbox \ UnionOf(rows)
         IN IF gaps = {} THEN rows ELSE FillEach(rows, Parts(gaps), fx)

\* step 5 of fix_topology: drop the parcels below min_area, reset the index
CleanUp(rows, fx) ==
    ResetIndex(SelectSeq(rows, LAMBDA r : Area(r.geom) >= fx.min_area))

\* fix_topology(gdf): the set of its outcomes [status, rows]
fix_topology(rows, fx, copied) ==
    LET s1 == _fix_invalid_geometries(rows)
        s2 == _remove_slivers(s1, fx)
    IN { IF o.err THEN [status |-> "KeyError", rows |-> <<>>]
         ELSE [status |-> "ok", rows |-> CleanUp(_fill_gaps(o.rows, fx), fx)] :
            o \in _fix_overlaps(s2, fx, copied) }

\* _detect_overlaps: the pairs [idx, other_idx] reported as OVERLAP
_detect_overlaps(rows, fx) ==
    { pr \in Labels(rows) \X (0 .. (Len(rows) - 1)) :
        LET parcel == rows[PosOf(rows, pr[1])].geom
        IN /\ BoundsIntersect(Bounds(rows[pr[2] + 1].geom), Bounds(parcel))
           /\ ~(pr[2] <= pr[1])
           /\ pr[2] \in Labels(rows)
           /\ LET other == rows[PosOf(rows, pr[2])].geom
              IN /\ Intersects(parcel, other)
                 /\ Area(parcel \cap other) > fx.overlap_threshold }

\* "if gap.area > 1.0", the minimum gap size _detect_gaps reports
MinReportedGap == 1

\* twice the area of hull.difference(all_parcels)
HullGap2(rows) == ConvexHullArea2(UnionOf(rows)) - 2 * Area(UnionOf(rows))

\* _detect_gaps reports a GAP issue.  The polygons of the difference are
\* lattice polygons, each of at least half a cell, and half a cell is more
\* than MinReportedGap: a gap is reported exactly when the difference is
\* not empty.
_detect_gaps(rows, fx) ==
    /\ Len(rows) >= 2
    /\ HullGap2(rows) > 0
    /\ Unit.area > 2 * MinReportedGap

\* _detect_slivers: the parcels reported as SLIVER
_detect_slivers(rows, fx) ==
    { l \in Labels(rows) :
        LET g == rows[PosOf(rows, l)].geom
        IN g # {} /\ Length(g) > 0 /\ IpqBelow(g, fx.sliver_threshold) }

\* validate with an is_valid that does not count the slivers
ValidateSliversUncounted(rows, fx) ==
    LET overlaps == _detect_overlaps(rows, fx)
        gaps == _detect_gaps(rows, fx)
        slivers == _detect_slivers(rows, fx)
    IN [invalid |-> {}, overlaps |-> overlaps, gaps |-> gaps, slivers |-> slivers,
        is_valid |-> (overlaps = {} /\ ~gaps)]

\* validate(gdf): the issues by type and is_valid (there are no invalid
\* geometries in the model)
validate(rows, fx) ==
    LET overlaps == _detect_overlaps(rows, fx)
        gaps == _detect_gaps(rows, fx)
        slivers == _detect_slivers(rows, fx)
    IN [invalid |-> {}, overlaps |-> overlaps, gaps |-> gaps, slivers |-> slivers,
        is_valid |-> (overlaps = {} /\ ~gaps /\ slivers = {})]

(***************************************************************************)
(* The topology specification: a caller builds a frame of rectangles and  *)
(* a fixer, and calls fix_topology and validate.                           *)
(***************************************************************************)
RECURSIVE Frames(_)
\* the frames of n rows, with the labels of a fresh frame
Frames(n) ==
    IF n = 0 THEN {<<>>}
    ELSE { Append(f, [label |-> n - 1, geom |-> g]) : f \in Frames(n - 1), g \in Rectangles }

NoResult == [status |-> "none", rows |-> <<>>]
NoReport == [target |-> "none"]

NoScorer == [status |-> "none"]
NoConfidence == [routing |-> "none"]
IdleScore == scoreArgs = <<>> /\ scorer = NoScorer /\ confidence = NoConfidence
IdleTopo == gdf = <<>> /\ fixer = <<>> /\ fixed = NoResult /\ report = NoReport
NoMatch == [status |-> "none", by |-> "none"]
NoScores == [status |-> "none"]
IdleMatch ==
    engine = <<>> /\ segments = <<>> /\ matched = NoMatch /\ scored = NoScores
NoList == [status |-> "none"]
NoSummary == [status |-> "none"]
NoBatch == [driver |-> "none"]
IdleConflict == violations = NoList /\ conflicts = NoList /\ summary = NoSummary
IdleRun == solved = {} /\ rematched = NoMatch /\ batch = NoBatch
NoRoutes == [status |-> "none"]
NoEvaluation == [status |-> "none"]
NoConstrained == [status |-> "none"]
IdleRoute == column = <<>> /\ routes = NoRoutes
IdleEval == evalArgs = <<>> /\ evaluation = NoEvaluation
IdleHeap == heap = <<>> /\ calls = <<>>
IdleStages == IdleRoute /\ IdleEval /\ constrained = NoConstrained /\ IdleHeap

InitTopo ==
    /\ gdf \in UNION { Frames(n) : n \in FrameSizes }
    /\ fixer \in FixerConfigs
    /\ fixed = NoResult
    /\ report = NoReport
    /\ IdleScore
    /\ IdleMatch
    /\ IdleConflict
    /\ IdleRun
    /\ IdleStages

\* fixed = fixer.fix_topology(gdf)
FixTopology ==
    /\ fixed.status = "none"
    /\ \E copied \in BOOLEAN : fixed' \in fix_topology(gdf, fixer, copied)
    /\ UNCHANGED <<stageVars, gdf, fixer, report, scoreVars, matchVars, conflictVars, runVars>>

\* is_valid, issues = fixer.validate(gdf), on the raw frame
ValidateRaw ==
    /\ report.target = "none"
    /\ fixed.status = "none"
    /\ report' = [target |-> "raw"] @@ validate(gdf, fixer)
    /\ UNCHANGED <<stageVars, gdf, fixer, fixed, scoreVars, matchVars, conflictVars, runVars>>

\* is_valid, issues = fixer.validate(fixed), on the fixer's own output
ValidateFixed ==
    /\ report.target = "none"
    /\ fixed.status = "ok"
    /\ report' = [target |-> "fixed"] @@ validate(fixed.rows, fixer)
    /\ UNCHANGED <<stageVars, gdf, fixer, fixed, scoreVars, matchVars, conflictVars, runVars>>

NextTopo == FixTopology \/ ValidateRaw \/ ValidateFixed

SpecTopo == InitTopo /\ [][NextTopo]_vars

(***************************************************************************)
(* Claims about the TopologyFixer.                                         *)
(***************************************************************************)
\* total_bounds of the caller's frame, as the envelope polygon
Envelope(rows) == Box(Bounds(UnionOf(rows)))
\* gdf.geometry.area.sum()
TotalArea(rows) ==
    SumOver(Positions(rows), [i \in Positions(rows) |-> Area(rows[i].geom)])

\* C3: after fix_topology no two output parcels have a pairwise intersection
\* area exceeding overlap_threshold.
C3_NoOverlapAfterFix ==
    fixed.status = "ok" =>
        \A i, j \in Positions(fixed.rows) :
            i < j => Area(fixed.rows[i].geom \cap fixed.rows[j].geom)
                        <= fixer.overlap_threshold

\* C5: validate() on the output of fix_topology, with the same fixer,
\* reports is_valid = true and no issue.
C5_ValidateCleanAfterFix ==
    report.target = "fixed" =>
        /\ report.is_valid
        /\ report.invalid = {} /\ report.overlaps = {}
        /\ ~report.gaps /\ report.slivers = {}

SliverInput == _fix_invalid_geometries(gdf)
SliverOutput == _remove_slivers(SliverInput, fixer)

\* the non-sliver rows of SliverInput that touch its i-th row
TouchingNonSlivers(i) ==
    { j \in Positions(SliverInput) :
        /\ ~is_sliver(SliverInput[j].geom, fixer)
        /\ Touches(SliverInput[j].geom, SliverInput[i].geom) }

\* C13: after sliver removal every parcel that was a sliver is gone as a
\* parcel of its own; if a non-sliver parcel touches it, its area is part of
\* a parcel that touched it, and if no parcel touches it, it is dropped: the
\* result is the one the frame without it would have given.
C13_SliversMergedOrDropped ==
    fixed.status # "none" =>
        \A i \in Positions(SliverInput) :
            is_sliver(SliverInput[i].geom, fixer) =>
                /\ SliverInput[i].label \notin Labels(SliverOutput)
                /\ TouchingNonSlivers(i) # {} =>
                      \E j \in TouchingNonSlivers(i) :
                          SliverInput[i].geom \subseteq
                              SliverOutput[PosOf(SliverOutput, SliverInput[j].label)].geom
                /\ (\A j \in Positions(SliverInput) :
                        ~Touches(SliverInput[j].geom, SliverInput[i].geom)) =>
                      SliverOutput =
                          _remove_slivers(SelectSeq(SliverInput,
                              LAMBDA r : r.label # SliverInput[i].label), fixer)

\* the pairs <<small, large>> of positions of the frame _fix_overlaps
\* receives whose parcels overlap by more than overlap_threshold, the first
\* being the one of the smaller area (either one when the areas are equal),
\* and neither of which intersects a third parcel
OverlappingPairs ==
    { p \in Positions(SliverOutput) \X Positions(SliverOutput) :
        /\ p[1] # p[2]
        /\ Area(SliverOutput[p[1]].geom \cap SliverOutput[p[2]].geom)
               > fixer.overlap_threshold
        /\ Area(SliverOutput[p[1]].geom) <= Area(SliverOutput[p[2]].geom)
        /\ \A k \in Positions(SliverOutput) \ {p[1], p[2]} :
               /\ SliverOutput[k].geom \cap SliverOutput[p[1]].geom = {}
               /\ SliverOutput[k].geom \cap SliverOutput[p[2]].geom = {} }

\* C14: after overlap resolution, of every pair of parcels that overlapped
\* by more than overlap_threshold one parcel (of the larger or of the same
\* area) has its full footprint and the other one is left with the largest
\* part of its footprint minus the intersection.
C14_OverlapTakenFromSmaller ==
    fixed.status # "none" =>
        \A copied \in BOOLEAN : \A o \in _fix_overlaps(SliverOutput, fixer, copied) :
            ~o.err =>
                \A p \in OverlappingPairs :
                    \/ /\ o.rows[p[2]].geom = SliverOutput[p[2]].geom
                       /\ o.rows[p[1]].geom =
                              LargestPart(SliverOutput[p[1]].geom
                                              \ SliverOutput[p[2]].geom)
                    \/ /\ Area(SliverOutput[p[1]].geom) = Area(SliverOutput[p[2]].geom)
                       /\ o.rows[p[1]].geom = SliverOutput[p[1]].geom
                       /\ o.rows[p[2]].geom =
                              LargestPart(SliverOutput[p[2]].geom
                                              \ SliverOutput[p[1]].geom)

\* the frames _fill_gaps can receive inside fix_topology
GapInputs ==
    { o.rows : o \in { x \in UNION { _fix_overlaps(SliverOutput, fixer, copied) :
                                        copied \in BOOLEAN } : ~x.err } }

\* gap_polygons of _fill_gaps
GapPolygons(rows) ==
    IF Len(rows) < 2 THEN {} ELSE Parts(Box(Bounds(UnionOf(rows))) \ UnionOf(rows))

\* C15: gap filling merges every gap below gap_threshold into a parcel that
\* shares the longest boundary with it, and no parcel grows into a gap whose
\* area is gap_threshold or more.
C15_GapsFilledBelowThreshold ==
    fixed.status # "none" =>
        \A rows \in GapInputs : \A gap \in GapPolygons(rows) :
            IF Area(gap) < fixer.gap_threshold
            THEN \E i \in Positions(rows) :
                    /\ \A j \in Positions(rows) :
                          SharedLength(rows[j].geom, gap) <= SharedLength(rows[i].geom, gap)
                    /\ gap \subseteq _fill_gaps(rows, fixer)[i].geom
            ELSE gap \cap UnionOf(_fill_gaps(rows, fixer)) = {}

\* C16: a call of validate, on the raw frame or on the fixed one, changes
\* neither the frame, nor the fixed frame, nor the fixer's thresholds, and
\* the is_valid it returns is true exactly when it reports no issue.
C16_ValidateReadOnly ==
    [][report' # report =>
          /\ gdf' = gdf
          /\ fixed' = fixed
          /\ fixer' = fixer
          /\ report'.is_valid = (/\ report'.invalid = {}
                                 /\ report'.overlaps = {}
                                 /\ ~report'.gaps
                                 /\ report'.slivers = {})]_vars

\* validate has reported slivers as the only issues
C16_Witness ==
    /\ report.target # "none"
    /\ ~report.is_valid
    /\ report.overlaps = {}
    /\ ~report.gaps
    /\ report.slivers # {}

(***************************************************************************)
(* ConfidenceScorer.  Factors, weights, thresholds and scores are fixed-   *)
(* point integers (Fp.one stands for 1.0).  A scorer's weights are the     *)
(* fractions weights[k] / den.                                             *)
(***************************************************************************)
FactorNames ==
    <<"area_match", "has_ror_link", "boundary_clarity",
      "shape_regularity", "count_consistency", "size_reasonable">>
FactorSet == {FactorNames[i] : i \in 1 .. Len(FactorNames)}

\* weights that sum to 0.995, inside the tolerance of __init__
SkewedWeights ==
    [area_match |-> 295, has_ror_link |-> 150, boundary_clarity |-> 150,
     shape_regularity |-> 100, count_consistency |-> 150, size_reasonable |-> 150]

DEFAULT_WEIGHTS ==
    [area_match |-> 300, has_ror_link |-> 150, boundary_clarity |-> 150,
     shape_regularity |-> 100, count_consistency |-> 150, size_reasonable |-> 150]

AUTO_APPROVE_THRESHOLD == 850
DESKTOP_REVIEW_THRESHOLD == 600

SumWeights(w) == SumOver(FactorSet, w)

\* weights=None (or an empty dict): "weights or self.DEFAULT_WEIGHTS"
NoWeights == [k \in {} |-> 0]

\* ZeroDivisionError of "v / total_weight"
ZeroDivisionError == [status |-> "ZeroDivisionError"]

\* ConfidenceScorer.__init__: "abs(total_weight - 1.0) > 0.01" is
\* |total - Fp.one| * 100 > Fp.one
ScorerInit(weights, auto_threshold, desktop_threshold) ==
    LET w == IF weights = NoWeights THEN DEFAULT_WEIGHTS ELSE weights
        total_weight == SumWeights(w)
    IN IF Abs(total_weight - Fp.one) * 100 > Fp.one
       THEN IF total_weight = 0 THEN ZeroDivisionError
            ELSE [status |-> "ok", weights |-> w, den |-> total_weight,
                  auto_threshold |-> auto_threshold,
                  desktop_threshold |-> desktop_threshold]
       ELSE [status |-> "ok", weights |-> w, den |-> Fp.one,
             auto_threshold |-> auto_threshold,
             desktop_threshold |-> desktop_threshold]

\* A parcel's geometry for the scorer and the matcher: a w x h rectangle
ShapeArea(sh) == sh[1] * sh[2]
ShapeLength(sh) == 2 * (sh[1] + sh[2])

\* calculate_shape_regularity: 4 * pi * area / perimeter^2, clipped to [0,1]
calculate_shape_regularity(sh) ==
    IF ShapeLength(sh) = 0 THEN 0
    ELSE LET ipq == (4 * PiApprox[1] * ShapeArea(sh) * Fp.one)
                        \div (PiApprox[2] * ShapeLength(sh) * ShapeLength(sh))
         IN Min2(Max2(ipq, 0), Fp.one)

\* calculate_size_reasonability, with lower_bound = min_expected * 0.5 and
\* upper_bound = max_expected * 1.5 compared in halves
\* (a comparison with NaN is false, max(0.0, nan) is 0.0, and inf / area is
\* inf)
calculate_size_reasonability(area_sqm, min_expected, max_expected) ==
    LET lower_ok == min_expected # NaN /\ min_expected <= 2 * area_sqm
        upper_ok == \/ max_expected = Inf
                    \/ max_expected # NaN /\ 2 * area_sqm <= 3 * max_expected
        below == min_expected # NaN /\ 2 * area_sqm < min_expected
    IN IF lower_ok /\ upper_ok THEN Fp.one
       ELSE IF below THEN Max2(0, (2 * area_sqm * Fp.one) \div min_expected)
       ELSE IF max_expected = NaN THEN 0
       ELSE IF max_expected = Inf THEN Inf
       ELSE Max2(0, (3 * max_expected * Fp.one) \div (2 * area_sqm))

\* round(x, 3) of Python for x = n / d thousandths: to the nearest, a tie
\* to the even one
RoundHalfEven(n, d) ==
    LET q == n \div d
        r == n % d
    IN IF 2 * r < d THEN q
       ELSE IF 2 * r > d THEN q + 1
       ELSE IF q % 2 = 0 THEN q ELSE q + 1

\* "Factor 1" with 0.0 for the value of a parcel without ROR area
AreaMatchNoDefault(area_mismatch) ==
    IF area_mismatch # NaN THEN Max2(0, Fp.one - area_mismatch) ELSE 0

\* "Factor 1: Area match with ROR" of score_parcel
AreaMatch(area_mismatch) ==
    IF area_mismatch # NaN THEN Max2(0, Fp.one - area_mismatch)
    ELSE Fp.one \div 2

\* the six factors score_parcel computes for a parcel row
\* [parcel_id, shape, area_mismatch, ror_survey_no, edge_score]
FactorsOf(parcel, village_stats) ==
    [area_match |-> AreaMatch(parcel.area_mismatch),
     has_ror_link |-> IF parcel.ror_survey_no # None THEN Fp.one ELSE 0,
     boundary_clarity |->
        IF parcel.edge_score # NaN THEN parcel.edge_score ELSE Fp.one \div 2,
     shape_regularity |-> calculate_shape_regularity(parcel.shape),
     count_consistency |->
        IF village_stats.expected_count > 0 /\ village_stats.actual_count > 0
        THEN (Min2(village_stats.expected_count, village_stats.actual_count) * Fp.one)
                \div Max2(village_stats.expected_count, village_stats.actual_count)
        ELSE Fp.one \div 2,
     size_reasonable |->
        calculate_size_reasonability(ShapeArea(parcel.shape),
            village_stats.min_area_sqm, village_stats.max_area_sqm)]

\* the explanations score_parcel appends before the routing is known
FactorExplanations(parcel, village_stats, f) ==
    (IF parcel.area_mismatch # NaN
     THEN IF 100 * f.area_match >= 95 * Fp.one THEN <<"Area matches ROR within 5%">>
          ELSE IF 100 * f.area_match < 80 * Fp.one THEN <<"Area mismatch">>
          ELSE <<>>
     ELSE <<"No ROR area for comparison">>)
    \o (IF parcel.ror_survey_no # None THEN <<"Linked to ROR">>
        ELSE <<"No ROR match found">>)
    \o (IF 10 * f.shape_regularity >= 7 * Fp.one THEN <<"Regular parcel shape">>
        ELSE IF 10 * f.shape_regularity < 3 * Fp.one
             THEN <<"Irregular shape - verify boundary">>
        ELSE <<>>)
    \o (IF village_stats.expected_count > 0 /\ village_stats.actual_count > 0
           /\ 10 * f.count_consistency < 8 * Fp.one
        THEN <<"Village parcel count mismatch">> ELSE <<>>)
    \o (IF 2 * f.size_reasonable < Fp.one THEN <<"Unusual parcel size">> ELSE <<>>)

\* the routing with ">" for ">=" at the auto-approve threshold
RoutingOfStrict(score, sc) ==
    IF score > sc.auto_threshold THEN "AUTO_APPROVE"
    ELSE IF score >= sc.desktop_threshold THEN "DESKTOP_REVIEW"
    ELSE "FIELD_VERIFICATION"

\* "Determine routing" of score_parcel
RoutingOf(score, sc) ==
    IF score >= sc.auto_threshold THEN "AUTO_APPROVE"
    ELSE IF score >= sc.desktop_threshold THEN "DESKTOP_REVIEW"
    ELSE "FIELD_VERIFICATION"

RoutingRationale(routing) ==
    IF routing = "AUTO_APPROVE" THEN "High confidence - auto-approved"
    ELSE IF routing = "DESKTOP_REVIEW" THEN "Medium confidence - desktop review"
    ELSE "Low confidence - field verification needed"

\* the weighted score: sum(factor_dict[k] * self.weights[k]), rounded to 3
\* decimals
WeightedScore(f, sc) ==
    RoundHalfEven(SumOver(FactorSet, [k \in FactorSet |-> f[k] * sc.weights[k]]),
                  sc.den)

\* score_parcel with the rationale appended instead of inserted at 0
ScoreParcelRationaleLast(parcel, village_stats, sc) ==
    LET factors == FactorsOf(parcel, village_stats)
        score == WeightedScore(factors, sc)
        routing == RoutingOf(score, sc)
    IN [parcel_id |-> parcel.parcel_id,
        confidence_score |-> score,
        routing |-> routing,
        factors |-> factors,
        explanation |-> FactorExplanations(parcel, village_stats, factors)
                            \o <<RoutingRationale(routing)>>]

\* score_parcel(parcel, village_stats) of the scorer sc
score_parcel(parcel, village_stats, sc) ==
    LET factors == FactorsOf(parcel, village_stats)
        score == WeightedScore(factors, sc)
        routing == RoutingOf(score, sc)
    IN [parcel_id |-> parcel.parcel_id,
        confidence_score |-> score,
        routing |-> routing,
        factors |-> factors,
        explanation |-> <<RoutingRationale(routing)>>
                            \o FactorExplanations(parcel, village_stats, factors)]

(***************************************************************************)
(* The scorer specification: a caller constructs a ConfidenceScorer with   *)
(* its own weights and thresholds and scores one parcel row.               *)
(***************************************************************************)
WeightChoices ==
    { NoWeights,
      [k \in FactorSet |-> 0],
      [DEFAULT_WEIGHTS EXCEPT !.area_match = 305],
      [k \in FactorSet |-> 2 * DEFAULT_WEIGHTS[k]] }

ThresholdChoices ==
    { <<AUTO_APPROVE_THRESHOLD, DESKTOP_REVIEW_THRESHOLD>>, <<900, 500>>,
      <<500, 900>> }

\* rectangles of 10 x 10, 10 x 30 and 1 x 30 linear units
Shapes == { <<10, 10>>, <<10, 30>>, <<1, 30>> }

ParcelRows ==
    [parcel_id : {0},
     shape : Shapes,
     area_mismatch : {NaN, 0, 250, 2000},
     ror_survey_no : {None, "S1"},
     edge_score : {NaN, 0, 1000, 2000}]

VillageStats ==
    { [expected_count |-> e, actual_count |-> a,
       min_area_sqm |-> mm[1], max_area_sqm |-> mm[2]] :
        e \in {0, 2}, a \in {1, 2}, mm \in {<<100, 100>>, <<5000, 5000>>, <<0, Inf>>} }

InitScore ==
    /\ scoreArgs \in [weights : WeightChoices, thresholds : ThresholdChoices,
                      parcel : ParcelRows, village_stats : VillageStats]
    /\ scorer = NoScorer
    /\ confidence = NoConfidence
    /\ IdleTopo
    /\ IdleMatch
    /\ IdleConflict
    /\ IdleRun
    /\ IdleStages

\* scorer = ConfidenceScorer(weights, auto_threshold, desktop_threshold)
NewScorer ==
    /\ scorer.status = "none"
    /\ scorer' = ScorerInit(scoreArgs.weights, scoreArgs.thresholds[1],
                            scoreArgs.thresholds[2])
    /\ UNCHANGED <<stageVars, scoreArgs, confidence, topoVars, matchVars, conflictVars, runVars>>

\* confidence = scorer.score_parcel(parcel, village_stats)
ScoreParcel ==
    /\ scorer.status = "ok"
    /\ confidence.routing = "none"
    /\ confidence' = score_parcel(scoreArgs.parcel, scoreArgs.village_stats, scorer)
    /\ UNCHANGED <<stageVars, scoreArgs, scorer, topoVars, matchVars, conflictVars, runVars>>

NextScore == NewScorer \/ ScoreParcel

SpecScore == InitScore /\ [][NextScore]_vars

(***************************************************************************)
(* Claims about the ConfidenceScorer.                                      *)
(***************************************************************************)
\* C4: score_parcel yields a confidence score in [0,1] for all inputs, every
\* one of the six factors being clamped to [0,1].
C4_ScoreInUnitInterval ==
    confidence.routing # "none" =>
        /\ 0 <= confidence.confidence_score
        /\ confidence.confidence_score <= Fp.one
        /\ \A k \in FactorSet :
              0 <= confidence.factors[k] /\ confidence.factors[k] <= Fp.one

\* C7: constructing a ConfidenceScorer with any weight set never fails, and
\* afterwards the weights in use sum to 1.
C7_WeightsSumToOne ==
    scorer.status # "none" =>
        /\ scorer.status = "ok"
        /\ SumWeights(scorer.weights) = scorer.den

Rationales ==
    { "High confidence - auto-approved", "Medium confidence - desktop review",
      "Low confidence - field verification needed" }

\* the factor (1..6, in the order of FactorNames) an explanation text is about
ExplainedFactor(text) ==
    IF text \in {"Area matches ROR within 5%", "Area mismatch",
                 "No ROR area for comparison"} THEN 1
    ELSE IF text \in {"Linked to ROR", "No ROR match found"} THEN 2
    ELSE IF text \in {"Regular parcel shape", "Irregular shape - verify boundary"}
         THEN 4
    ELSE IF text = "Village parcel count mismatch" THEN 5
    ELSE IF text = "Unusual parcel size" THEN 6
    ELSE 0

\* C26: the explanation list of a scored parcel is non-empty, starts with the
\* rationale of the assigned routing, holds a rationale exactly once, and
\* continues with factor explanations in factor order.
C26_RationaleFirst ==
    confidence.routing # "none" =>
        LET e == confidence.explanation
        IN /\ Len(e) >= 1
           /\ e[1] = RoutingRationale(confidence.routing)
           /\ (confidence.routing = "AUTO_APPROVE")
                 = (e[1] = "High confidence - auto-approved")
           /\ (confidence.routing = "DESKTOP_REVIEW")
                 = (e[1] = "Medium confidence - desktop review")
           /\ \A i \in 2 .. Len(e) :
                 e[i] \notin Rationales /\ ExplainedFactor(e[i]) > 0
           /\ \A i \in 2 .. Len(e), j \in 2 .. Len(e) :
                 i < j => ExplainedFactor(e[i]) < ExplainedFactor(e[j])

\* a parcel sent to desktop review with four factor explanations
C26_Witness ==
    /\ confidence.routing = "DESKTOP_REVIEW"
    /\ Len(confidence.explanation) >= 5

(***************************************************************************)
(* The weighting specification: the last two steps of score_parcel, the    *)
(* weighted score and the routing, applied to a factor_dict of any values  *)
(* in [0,1] (a polygon's shape_regularity stays below 1, so the factor     *)
(* values are the inputs here).                                            *)
(***************************************************************************)
FactorValues == {0, Fp.one \div 2, Fp.one}

InitWeigh ==
    /\ scoreArgs \in [weights : {NoWeights, [k \in FactorSet |-> 2 * DEFAULT_WEIGHTS[k]]},
                      thresholds : ThresholdChoices,
                      factors : [FactorSet -> FactorValues]]
    /\ scorer = NoScorer
    /\ confidence = NoConfidence
    /\ IdleTopo
    /\ IdleMatch
    /\ IdleConflict
    /\ IdleRun
    /\ IdleStages

\* "Calculate weighted score" and "Determine routing" of score_parcel
WeighFactors ==
    /\ scorer.status = "ok"
    /\ confidence.routing = "none"
    /\ confidence' =
          LET score == WeightedScore(scoreArgs.factors, scorer)
          IN [confidence_score |-> score, routing |-> RoutingOf(score, scorer),
              factors |-> scoreArgs.factors]
    /\ UNCHANGED <<stageVars, scoreArgs, scorer, topoVars, matchVars, conflictVars, runVars>>

NextWeigh == NewScorer \/ WeighFactors

SpecWeigh == InitWeigh /\ [][NextWeigh]_vars

DefaultScorer ==
    /\ scoreArgs.weights = NoWeights
    /\ scoreArgs.thresholds = <<AUTO_APPROVE_THRESHOLD, DESKTOP_REVIEW_THRESHOLD>>

\* C23: with the default weights and thresholds, a parcel whose six factors
\* are all 1.0 gets the confidence score 1.0 exactly and is routed to
\* AUTO_APPROVE.
C23_AllOnesAutoApproved ==
    (/\ confidence.routing # "none"
     /\ DefaultScorer
     /\ \A k \in FactorSet : scoreArgs.factors[k] = Fp.one)
        => /\ confidence.confidence_score = Fp.one
           /\ confidence.routing = "AUTO_APPROVE"

\* the default scorer has scored six factors of 1.0
C23_Witness ==
    /\ confidence.routing # "none"
    /\ DefaultScorer
    /\ \A k \in FactorSet : scoreArgs.factors[k] = Fp.one

(***************************************************************************)
(* The routing specification: the routing label of utils.py, the routing   *)
(* of a default ConfidenceScorer and the confidence distribution of the    *)
(* pipeline's statistics, computed for the confidence column of one frame. *)
(* The values of the column lie on both sides of 0.60 and 0.85 and, as a   *)
(* detection confidence can, above 1.                                      *)
(***************************************************************************)
\* get_routing_label with ">" for ">=" at 0.85
GetRoutingLabelStrict(c) ==
    IF 100 * c > 85 * Fp.one THEN "AUTO_APPROVE"
    ELSE IF 100 * c >= 60 * Fp.one THEN "DESKTOP_REVIEW"
    ELSE "FIELD_VERIFICATION"

\* utils.get_routing_label(confidence)
get_routing_label(c) ==
    IF 100 * c >= 85 * Fp.one THEN "AUTO_APPROVE"
    ELSE IF 100 * c >= 60 * Fp.one THEN "DESKTOP_REVIEW"
    ELSE "FIELD_VERIFICATION"

\* the confidence distribution of BoundaryAIPipeline._calculate_statistics
_calculate_statistics(col) ==
    [status |-> "ok",
     total_parcels |-> Len(col),
     high_confidence_count |->
        Len(SelectSeq(col, LAMBDA c : 100 * c >= 85 * Fp.one)),
     medium_confidence_count |->
        Len(SelectSeq(col, LAMBDA c : 100 * c >= 60 * Fp.one /\ 100 * c < 85 * Fp.one)),
     low_confidence_count |->
        Len(SelectSeq(col, LAMBDA c : 100 * c < 60 * Fp.one))]

ConfidenceValues == {0, 599, 600, 849, 850, Fp.one, 1020}

InitRouting ==
    /\ column \in UNION { [1 .. n -> ConfidenceValues] : n \in 0 .. MaxSegments }
    /\ routes = [done |-> {}, labels |-> <<>>, routings |-> <<>>,
                 statistics |-> [status |-> "none"]]
    /\ IdleTopo
    /\ IdleScore
    /\ IdleMatch
    /\ IdleConflict
    /\ IdleRun
    /\ IdleEval
    /\ constrained = NoConstrained
    /\ IdleHeap

\* get_routing_label(confidence) for every row
GetRoutingLabels ==
    /\ "labels" \notin routes.done
    /\ routes' = [routes EXCEPT
                    !.done = @ \cup {"labels"},
                    !.labels = [i \in DOMAIN column |-> get_routing_label(column[i])]]
    /\ UNCHANGED <<heapVars, column, evalVars, constrained, topoVars, scoreVars, matchVars,
                   conflictVars, runVars>>

\* the routing ConfidenceScorer() gives to a parcel reporting the score
ScorerRoutings ==
    /\ "routings" \notin routes.done
    /\ routes' = [routes EXCEPT
                    !.done = @ \cup {"routings"},
                    !.routings = [i \in DOMAIN column |->
                        RoutingOf(column[i],
                                  ScorerInit(NoWeights, AUTO_APPROVE_THRESHOLD,
                                             DESKTOP_REVIEW_THRESHOLD))]]
    /\ UNCHANGED <<heapVars, column, evalVars, constrained, topoVars, scoreVars, matchVars,
                   conflictVars, runVars>>

\* stats = self._calculate_statistics(parcels_gdf, metadata, processing_time)
CalculateStatistics ==
    /\ "statistics" \notin routes.done
    /\ routes' = [routes EXCEPT
                    !.done = @ \cup {"statistics"},
                    !.statistics = _calculate_statistics(column)]
    /\ UNCHANGED <<heapVars, column, evalVars, constrained, topoVars, scoreVars, matchVars,
                   conflictVars, runVars>>

NextRouting == GetRoutingLabels \/ ScorerRoutings \/ CalculateStatistics

SpecRouting == InitRouting /\ [][NextRouting]_vars

\* the number of rows that list gives the routing r
Routed(list, r) == Cardinality({ i \in DOMAIN list : list[i] = r })

\* C29: get_routing_label(score) is the routing a ConfidenceScorer with the
\* default thresholds gives to a parcel reporting that score, and the high,
\* medium and low confidence counts of the pipeline's statistics partition
\* the parcels along the same boundaries 0.85 and 0.60.
C29_RoutingsAgree ==
    /\ {"labels", "routings"} \subseteq routes.done =>
          routes.labels = routes.routings
    /\ "statistics" \in routes.done =>
          /\ routes.statistics.high_confidence_count
               + routes.statistics.medium_confidence_count
               + routes.statistics.low_confidence_count = Len(column)
          /\ "routings" \in routes.done =>
                /\ routes.statistics.high_confidence_count
                      = Routed(routes.routings, "AUTO_APPROVE")
                /\ routes.statistics.medium_confidence_count
                      = Routed(routes.routings, "DESKTOP_REVIEW")
                /\ routes.statistics.low_confidence_count
                      = Routed(routes.routings, "FIELD_VERIFICATION")

\* a column with a value at each boundary, routed three ways
C29_Witness ==
    /\ routes.done = {"labels", "routings", "statistics"}
    /\ \E i, j \in DOMAIN column : column[i] = 850 /\ column[j] = 600

(***************************************************************************)
(* RORConstraintEngine (ror_engine.py) and the matcher of the segmenter    *)
(* (segmentation.py).  A record is [survey_no, expected_area_sqm], a       *)
(* segment row is [shape]; the owner and land type columns, which nothing  *)
(* reads back, are left out.  Indices are 0-based as in the source.        *)
(***************************************************************************)
\* the acceptance bound "cost < 2.0" of the segmenter's matcher
reject_threshold == 2 * Fp.one

\* RORConstraintEngine.__init__: the records and their statistics
RORConstraintEngine(ror_records) ==
    LET expected_areas ==
            { ror_records[j].expected_area_sqm : j \in DOMAIN ror_records }
    IN [ror_records |-> ror_records,
        expected_count |-> Len(ror_records),
        total_expected_area |->
            SumOver(DOMAIN ror_records,
                    [j \in DOMAIN ror_records |-> ror_records[j].expected_area_sqm]),
        min_expected_area |->
            IF expected_areas = {} THEN 0 ELSE MinOf(expected_areas),
        max_expected_area |->
            IF expected_areas = {} THEN 0 ELSE MaxOf(expected_areas),
        count_tolerance |-> (3 * Fp.one) \div 10,
        area_tolerance |-> Fp.one \div 20]

\* the area difference without the division by the record's area
AbsoluteAreaCost(seg_area, ror_area) ==
    IF ror_area > 0 THEN Abs(seg_area - ror_area) * Fp.one ELSE Fp.one

\* one entry of a cost matrix: abs(seg_area - ror_area) / ror_area, or 1.0
\* for a record without area
AreaCost(seg_area, ror_area) ==
    IF ror_area > 0 THEN (Abs(seg_area - ror_area) * Fp.one) \div ror_area
    ELSE Fp.one

\* the match confidence without the cap of the mismatch at 1.0
MatchConfidenceUncapped(mismatch) == Fp.one - mismatch

\* match_confidence = 1.0 - min(mismatch, 1.0)
MatchConfidence(mismatch) == Fp.one - Min2(mismatch, Fp.one)

\* cost_matrix of match_segments_to_ror: n_segments x n_ror
CostMatrix(segs, ror_records) ==
    [p \in (0 .. Len(segs) - 1) \X (0 .. Len(ror_records) - 1) |->
        AreaCost(ShapeArea(segs[p[1] + 1].shape),
                 ror_records[p[2] + 1].expected_area_sqm)]

\* cost_matrix.T
Transpose(cost) ==
    [p \in { <<q[2], q[1]>> : q \in DOMAIN cost } |-> cost[<<p[2], p[1]>>]]

Swap(A) == { <<p[2], p[1]>> : p \in A }

\* the complete assignments of a matrix: sets of <<row, column>> with
\* min(rows, columns) pairs and no row or column twice
RECURSIVE Assignments(_, _)
Assignments(rows, cols) ==
    IF rows = {} \/ cols = {} THEN {{}}
    ELSE IF Cardinality(rows) >= Cardinality(cols)
    THEN LET c == MinOf(cols)
         IN UNION { { {<<r, c>>} \cup A :
                        A \in Assignments(rows \ {r}, cols \ {c}) } : r \in rows }
    ELSE LET r == MinOf(rows)
         IN UNION { { {<<r, c>>} \cup A :
                        A \in Assignments(rows \ {r}, cols \ {c}) } : c \in cols }

TotalCost(cost, A) == SumOver(A, [p \in A |-> cost[p]])

\* every row takes a cheapest column of its own
RowwiseArgmin(cost, n_rows, n_cols) ==
    LET rows == 0 .. n_rows - 1
        cols == 0 .. n_cols - 1
    IN IF cols = {} THEN {{}}
       ELSE { { <<r, g[r]>> : r \in rows } :
                g \in { f \in [rows -> cols] :
                          \A r \in rows, c \in cols :
                              cost[<<r, f[r]>>] <= cost[<<r, c>>] } }

\* scipy.optimize.linear_sum_assignment(cost_matrix): the complete
\* assignments of minimum total cost; which of several the solver returns is
\* its own choice
linear_sum_assignment(cost, n_rows, n_cols) ==
    LET all == Assignments(0 .. n_rows - 1, 0 .. n_cols - 1)
    IN { A \in all : \A B \in all : TotalCost(cost, A) <= TotalCost(cost, B) }

\* a solver that answers every call afresh
FreshSolver(cost, n_rows, n_cols, memo) ==
    linear_sum_assignment(cost, n_rows, n_cols)

\* the solver of one build: a deterministic algorithm, so a cost matrix it
\* has solved before (memo) gets the answer it got before
Solver(cost, n_rows, n_cols, memo) ==
    IF \E e \in memo : e.cost = cost
    THEN { e.assignment : e \in { x \in memo : x.cost = cost } }
    ELSE linear_sum_assignment(cost, n_rows, n_cols)

\* the pairs of A as a sequence ascending in component k, the order in which
\* zip(row_ind, col_ind) yields them
RECURSIVE PairsInOrder(_, _)
PairsInOrder(A, k) ==
    IF A = {} THEN <<>>
    ELSE LET p == CHOOSE x \in A : \A y \in A : x[k] <= y[k]
         IN <<p>> \o PairsInOrder(A \ {p}, k)

\* the row of segment i after "Apply matches"
MatchedRow(seg, ror, mismatch) ==
    [shape |-> seg.shape, area_sqm |-> ShapeArea(seg.shape),
     ror_survey_no |-> ror.survey_no, ror_area_sqm |-> ror.expected_area_sqm,
     area_mismatch |-> mismatch, is_matched |-> TRUE]

\* the row of a segment after "Initialize new columns"
UnmatchedRow(seg) ==
    [shape |-> seg.shape, area_sqm |-> ShapeArea(seg.shape),
     ror_survey_no |-> None, ror_area_sqm |-> NaN,
     area_mismatch |-> NaN, is_matched |-> FALSE]

\* RORConstraintEngine.match_segments_to_ror(segments): the set of its
\* outcomes, one for every optimal assignment
match_segments_to_ror(segs, eng, memo) ==
    LET n_segments == Len(segs)
        n_ror == Len(eng.ror_records)
        cost_matrix == CostMatrix(segs, eng.ror_records)
        solutions ==
            IF n_segments >= n_ror
            THEN Solver(cost_matrix, n_segments, n_ror, memo)
            ELSE { Swap(A) : A \in
                     Solver(Transpose(cost_matrix), n_ror, n_segments, memo) }
        Outcome(A) ==
            LET pairs == PairsInOrder(A, IF n_segments >= n_ror THEN 1 ELSE 2)
                rows == [i \in 1 .. n_segments |->
                    IF \E p \in A : p[1] = i - 1
                    THEN LET p == CHOOSE q \in A : q[1] = i - 1
                         IN MatchedRow(segs[i], eng.ror_records[p[2] + 1],
                                       cost_matrix[p])
                    ELSE UnmatchedRow(segs[i])]
                accepted == [k \in 1 .. Len(pairs) |->
                    LET ror == eng.ror_records[pairs[k][2] + 1]
                    IN [segment_id |-> pairs[k][1],
                        ror_survey_no |-> ror.survey_no,
                        ror_area_sqm |-> ror.expected_area_sqm,
                        generated_area_sqm |-> ShapeArea(segs[pairs[k][1] + 1].shape),
                        area_mismatch |-> cost_matrix[pairs[k]],
                        match_confidence |-> MatchConfidence(cost_matrix[pairs[k]])]]
                Unmatched(i) ==
                    IF rows[i].is_matched THEN <<>>
                    ELSE << [segment_id |-> i - 1, ror_survey_no |-> None,
                             ror_area_sqm |-> NaN,
                             generated_area_sqm |-> ShapeArea(segs[i].shape),
                             area_mismatch |-> Fp.one, match_confidence |-> 0] >>
                RECURSIVE UnmatchedFrom(_)
                UnmatchedFrom(i) ==
                    IF i > n_segments THEN <<>>
                    ELSE Unmatched(i) \o UnmatchedFrom(i + 1)
            IN [status |-> "ok", by |-> "ror_engine", pairs |-> pairs,
                segments |-> rows,
                match_results |-> accepted \o UnmatchedFrom(1)]
    IN { Outcome(A) : A \in solutions }

\* the call match_segments_to_ror made to the solver and the answer it got,
\* given the pairs it went on to apply
SolverCall(segs, eng, pairs) ==
    LET cost_matrix == CostMatrix(segs, eng.ror_records)
        A == { pairs[k] : k \in DOMAIN pairs }
    IN IF Len(segs) >= Len(eng.ror_records)
       THEN [cost |-> cost_matrix, assignment |-> A]
       ELSE [cost |-> Transpose(cost_matrix), assignment |-> Swap(A)]

\* RORGuidedSegmenter._match_segments_to_ror(segments, expected_areas): the
\* set of its outcomes; a match is <<segment index or None, record index>>
_match_segments_to_ror(segs, expected_areas) ==
    LET n_segments == Len(segs)
        n_ror == Len(expected_areas)
        cost_matrix ==
            [p \in (0 .. n_ror - 1) \X (0 .. n_segments - 1) |->
                AreaCost(ShapeArea(segs[p[2] + 1].shape), expected_areas[p[1] + 1])]
        RECURSIVE UnassignedFrom(_, _)
        UnassignedFrom(i, assigned_ror) ==
            IF i >= n_ror THEN <<>>
            ELSE (IF i \in assigned_ror THEN <<>> ELSE << <<NaN, i>> >>)
                 \o UnassignedFrom(i + 1, assigned_ror)
        Outcome(A) ==
            LET pairs == PairsInOrder(A, 1)
                kept == SelectSeq(pairs, LAMBDA p : cost_matrix[p] < reject_threshold)
                assigned_ror == { kept[k][1] : k \in DOMAIN kept }
            IN [status |-> "ok", by |-> "segmentation",
                matches |-> [k \in DOMAIN kept |-> <<kept[k][2], kept[k][1]>>]
                            \o UnassignedFrom(0, assigned_ror),
                cost_matrix |-> cost_matrix]
    IN IF n_segments = 0
       THEN { [status |-> "ok", by |-> "segmentation",
               matches |-> UnassignedFrom(0, {}), cost_matrix |-> <<>>] }
       ELSE { Outcome(A) :
                A \in linear_sum_assignment(cost_matrix, n_ror, n_segments) }

\* ConfidenceScorer.score_all_parcels(parcels, expected_count, min_area_sqm,
\* max_area_sqm) on a matched frame, which has no edge_score column
score_all_parcels(parcels, expected_count, min_area_sqm, max_area_sqm, sc) ==
    LET village_stats ==
            [expected_count |-> expected_count, actual_count |-> Len(parcels),
             min_area_sqm |-> min_area_sqm, max_area_sqm |-> max_area_sqm]
        Row(i) == [parcel_id |-> i - 1, shape |-> parcels[i].shape,
                   area_mismatch |-> parcels[i].area_mismatch,
                   ror_survey_no |-> parcels[i].ror_survey_no,
                   edge_score |-> NaN]
    IN [i \in 1 .. Len(parcels) |->
          LET result == score_parcel(Row(i), village_stats, sc)
          IN [parcel |-> parcels[i],
              confidence |-> result.confidence_score,
              routing |-> result.routing,
              confidence_factors |-> result.factors,
              explanation |-> result.explanation]]

(***************************************************************************)
(* Violations and conflicts: RORConstraintEngine.detect_violations and     *)
(* ConflictDetector (confidence.py).  A violation or conflict is           *)
(* [type, severity, parcel_id, survey_no]; messages and the copied areas   *)
(* are left out.  parcel_id is the row's index label.                      *)
(***************************************************************************)
\* the bound "mismatch > 0.20" of a HIGH area mismatch
HighMismatch == Fp.one \div 5

\* ConflictDetector.__init__(area_threshold=0.05)
ConflictDetector == [area_threshold |-> Fp.one \div 20]

\* the sequences that list every element of S once: the orders in which a
\* loop over a Python set can visit it
RECURSIVE Orders(_)
Orders(S) ==
    IF S = {} THEN { <<>> }
    ELSE UNION { { <<x>> \o rest : rest \in Orders(S \ {x}) } : x \in S }

\* the concatenation of f[1], ..., f[n]
RECURSIVE Flatten(_, _)
Flatten(f, n) == IF n = 0 THEN <<>> ELSE Flatten(f, n - 1) \o f[n]

\* the severity with "mismatch >= 0.20" for HIGH
MismatchSeverityInclusive(mismatch, tolerance) ==
    IF mismatch >= HighMismatch THEN "HIGH"
    ELSE IF mismatch > tolerance THEN "MEDIUM"
    ELSE "none"

\* the severity of an area mismatch: "if mismatch > 0.20 ... elif mismatch >
\* tolerance ... else continue"
MismatchSeverity(mismatch, tolerance) ==
    IF mismatch > HighMismatch THEN "HIGH"
    ELSE IF mismatch > tolerance THEN "MEDIUM"
    ELSE "none"

\* the AREA_MISMATCH entries of a frame, in row order
AreaMismatches(parcels, tolerance) ==
    Flatten([i \in 1 .. Len(parcels) |->
        IF parcels[i].area_mismatch # NaN
           /\ MismatchSeverity(parcels[i].area_mismatch, tolerance) # "none"
        THEN << [type |-> "AREA_MISMATCH",
                 severity |-> MismatchSeverity(parcels[i].area_mismatch, tolerance),
                 parcel_id |-> i - 1,
                 survey_no |-> parcels[i].ror_survey_no] >>
        ELSE <<>>], Len(parcels))

\* the entries for the rows whose ror_survey_no is missing, in row order
ExtraParcels(parcels, type) ==
    Flatten([i \in 1 .. Len(parcels) |->
        IF parcels[i].ror_survey_no = None
        THEN << [type |-> type, severity |-> "HIGH",
                 parcel_id |-> i - 1, survey_no |-> None] >>
        ELSE <<>>], Len(parcels))

\* all_survey_nos - matched_survey_nos: sets of survey numbers
MissingSurveyNos(parcels, ror_records) ==
    { ror_records[j].survey_no : j \in DOMAIN ror_records }
        \ ({ parcels[i].ror_survey_no : i \in DOMAIN parcels } \ {None})

\* ConflictDetector.detect_conflicts(parcels, ror_records): the lists it can
\* return, one for every order of the loop over the set of missing numbers
detect_conflicts(parcels, ror_records, detector) ==
    { [status |-> "ok",
       list |-> AreaMismatches(parcels, detector.area_threshold)
                \o ExtraParcels(parcels, "EXTRA_PARCEL")
                \o [k \in DOMAIN order |->
                      [type |-> "MISSING_PARCEL", severity |-> "HIGH",
                       parcel_id |-> NaN, survey_no |-> order[k]]]] :
        order \in Orders(MissingSurveyNos(parcels, ror_records)) }

\* RORConstraintEngine.check_count_constraint(segment_count): the violation,
\* if any, as a list of at most one
check_count_constraint(eng, segment_count) ==
    IF segment_count * Fp.one > eng.expected_count * (Fp.one + eng.count_tolerance)
    THEN << [type |-> "COUNT_HIGH", severity |-> "MEDIUM",
             parcel_id |-> NaN, survey_no |-> None] >>
    ELSE IF segment_count * Fp.one < eng.expected_count * (Fp.one - eng.count_tolerance)
    THEN << [type |-> "COUNT_LOW", severity |-> "MEDIUM",
             parcel_id |-> NaN, survey_no |-> None] >>
    ELSE <<>>

\* RORConstraintEngine.detect_violations(segments), for a frame that has
\* the ror_survey_no column
detect_violations(parcels, eng) ==
    { [status |-> "ok",
       list |-> check_count_constraint(eng, Len(parcels))
                \o [k \in DOMAIN order |->
                      [type |-> "UNMATCHED_ROR", severity |-> "HIGH",
                       parcel_id |-> NaN, survey_no |-> order[k]]]
                \o ExtraParcels(parcels, "EXTRA_SEGMENT")
                \o AreaMismatches(parcels, eng.area_tolerance)] :
        order \in Orders(MissingSurveyNos(parcels, eng.ror_records)) }

\* a summary that counts an entry without a "severity" key under no severity
SummaryWithoutDefault(list) ==
    LET TypeOf(c) == IF c.type = None THEN "UNKNOWN" ELSE c.type
        types == { TypeOf(list[k]) : k \in DOMAIN list }
    IN [status |-> "ok",
        total |-> Len(list),
        by_type |-> [t \in types |-> Len(SelectSeq(list, LAMBDA c : TypeOf(c) = t))],
        by_severity |->
            [v \in {"HIGH", "MEDIUM", "LOW"} |->
                Len(SelectSeq(list, LAMBDA c : c.severity = v))]]

\* ConflictDetector.get_conflict_summary(conflicts); an entry without a
\* "type" or a "severity" key carries None there
get_conflict_summary(list) ==
    LET TypeOf(c) == IF c.type = None THEN "UNKNOWN" ELSE c.type
        SeverityOf(c) == IF c.severity = None THEN "MEDIUM" ELSE c.severity
        types == { TypeOf(list[k]) : k \in DOMAIN list }
    IN [status |-> "ok",
        total |-> Len(list),
        by_type |-> [t \in types |-> Len(SelectSeq(list, LAMBDA c : TypeOf(c) = t))],
        by_severity |->
            [v \in {"HIGH", "MEDIUM", "LOW"} |->
                Len(SelectSeq(list, LAMBDA c : SeverityOf(c) = v))]]

(***************************************************************************)
(* The matching specification: a caller builds the engine from a record    *)
(* list, matches a frame of segments against it and scores the matched     *)
(* frame with a default ConfidenceScorer (ui/app.py, precompute_demo.py).  *)
(***************************************************************************)
\* segments of 10 x 10 and 10 x 30 linear units (areas 100 and 300)
SegmentShapes == { <<10, 10>>, <<10, 30>> }
RecordAreas == { 0, 100, 5000 }
SurveyNos == << "S1", "S2", "S3", "S4" >>

\* record lists: survey numbers by position, the first one possibly missing
RecordLists ==
    UNION { { [j \in 1 .. m |->
                 [survey_no |-> IF j = 1 THEN first ELSE SurveyNos[j],
                  expected_area_sqm |-> areas[j]]] :
              areas \in [1 .. m -> RecordAreas], first \in {None, SurveyNos[1]} } :
            m \in 0 .. MaxRecords }

InitMatch ==
    /\ segments \in UNION { [1 .. n -> [shape : SegmentShapes]] : n \in 0 .. MaxSegments }
    /\ engine \in { RORConstraintEngine(ror_records) : ror_records \in RecordLists }
    /\ matched = NoMatch
    /\ scored = NoScores
    /\ IdleTopo
    /\ IdleScore
    /\ IdleConflict
    /\ IdleRun
    /\ IdleStages

\* the matched frame has not been put to a use yet; a run makes one use of it
Unused ==
    /\ matched.by = "ror_engine"
    /\ rematched.status = "none"
    /\ scored.status = "none"
    /\ violations.status = "none"
    /\ conflicts.status = "none"

\* gdf, matches = engine.match_segments_to_ror(gdf)
MatchSegmentsToRor ==
    /\ matched.status = "none"
    /\ matched' \in match_segments_to_ror(segments, engine, solved)
    /\ solved' = solved \cup {SolverCall(segments, engine, matched'.pairs)}
    /\ UNCHANGED <<stageVars, engine, segments, scored, rematched, batch,
                   topoVars, scoreVars, conflictVars>>

\* a second run on the same frame and the same engine:
\* gdf2, matches2 = engine.match_segments_to_ror(gdf)
MatchAgain ==
    /\ Unused
    /\ rematched' \in match_segments_to_ror(segments, engine, solved)
    /\ solved' = solved \cup {SolverCall(segments, engine, rematched'.pairs)}
    /\ UNCHANGED <<stageVars, engine, segments, matched, scored, batch,
                   topoVars, scoreVars, conflictVars>>

\* matches, cost_matrix = self._match_segments_to_ror(segments, expected_areas)
SegmenterMatch ==
    /\ matched.status = "none"
    /\ matched' \in _match_segments_to_ror(segments,
            [j \in DOMAIN engine.ror_records |->
                engine.ror_records[j].expected_area_sqm])
    /\ UNCHANGED <<stageVars, engine, segments, scored, topoVars, scoreVars,
                   conflictVars, runVars>>

\* the extent statistics a caller passes on: min and max of the extent
\* column (NaN for an empty one), 100 and 50000 without that column, or
\* none at all (precompute_demo.py), which leaves score_parcel's defaults
ExtentStatistics(eng) ==
    LET areas == { eng.ror_records[j].expected_area_sqm : j \in DOMAIN eng.ror_records }
    IN { IF areas = {} THEN <<NaN, NaN>> ELSE <<MinOf(areas), MaxOf(areas)>> }
       \cup (IF areas \subseteq {0} THEN { <<100, 50000>> } ELSE {})
       \cup { <<0, Inf>> }

\* gdf = ConfidenceScorer().score_all_parcels(gdf, expected_count=len(ror), ...)
ScoreAllParcels ==
    /\ Unused
    /\ \E st \in ExtentStatistics(engine) :
          scored' = [status |-> "ok",
                     parcels |-> score_all_parcels(matched.segments,
                        engine.expected_count, st[1], st[2],
                        ScorerInit(NoWeights, AUTO_APPROVE_THRESHOLD,
                                   DESKTOP_REVIEW_THRESHOLD))]
    /\ UNCHANGED <<stageVars, engine, segments, matched, topoVars, scoreVars,
                   conflictVars, runVars>>

\* violations = engine.detect_violations(gdf)
DetectViolations ==
    /\ Unused
    /\ violations' \in detect_violations(matched.segments, engine)
    /\ UNCHANGED <<stageVars, conflicts, summary, topoVars, scoreVars, matchVars, runVars>>

\* conflicts = ConflictDetector().detect_conflicts(gdf, ror_records)
DetectConflicts ==
    /\ Unused
    /\ conflicts' \in detect_conflicts(matched.segments, engine.ror_records,
                                       ConflictDetector)
    /\ UNCHANGED <<stageVars, violations, summary, topoVars, scoreVars, matchVars, runVars>>

\* summary = detector.get_conflict_summary(conflicts)
GetConflictSummary ==
    /\ conflicts.status = "ok"
    /\ summary.status = "none"
    /\ summary' = get_conflict_summary(conflicts.list)
    /\ UNCHANGED <<stageVars, violations, conflicts, topoVars, scoreVars, matchVars, runVars>>

NextMatch ==
    \/ MatchSegmentsToRor
    \/ MatchAgain
    \/ SegmenterMatch
    \/ ScoreAllParcels

SpecMatch == InitMatch /\ [][NextMatch]_vars

(***************************************************************************)
(* The conflict specification: a caller matches the parcels of a frame to  *)
(* the records of an engine and asks a detector for the violations or the  *)
(* conflicts of the matched frame.  A record of area 125 puts a parcel of  *)
(* area 100 at a deviation of exactly 0.20.                                *)
(***************************************************************************)
ConflictRecordAreas == { 0, 100, 125 }

\* the survey numbers of a record list: one per position, with the first one
\* missing, or with the second one the same as the first
SurveyNumberings ==
    { SurveyNos,
      [SurveyNos EXCEPT ![1] = None],
      [SurveyNos EXCEPT ![2] = SurveyNos[1]] }

ConflictRecordLists ==
    UNION { { [j \in 1 .. m |->
                 [survey_no |-> names[j], expected_area_sqm |-> areas[j]]] :
              areas \in [1 .. m -> ConflictRecordAreas], names \in SurveyNumberings } :
            m \in 0 .. MaxRecords }

InitConflict ==
    /\ segments \in UNION { [1 .. n -> [shape : SegmentShapes]] : n \in 0 .. MaxSegments }
    /\ engine \in { RORConstraintEngine(ror_records) : ror_records \in ConflictRecordLists }
    /\ matched = NoMatch
    /\ scored = NoScores
    /\ IdleTopo
    /\ IdleScore
    /\ IdleConflict
    /\ IdleRun
    /\ IdleStages

NextConflict ==
    \/ MatchSegmentsToRor
    \/ DetectViolations
    \/ DetectConflicts
    \/ GetConflictSummary

SpecConflict == InitConflict /\ [][NextConflict]_vars

(***************************************************************************)
(* Claims about the matcher.                                               *)
(***************************************************************************)
\* C1: after match_segments_to_ror the accepted matches form a partial
\* injective mapping: no parcel index and no record index appears in more
\* than one accepted match, and the rows marked matched are exactly the
\* parcels of the accepted matches.
C1_MatchIsInjective ==
    matched.by = "ror_engine" =>
        /\ \A a, b \in DOMAIN matched.pairs :
              a # b => /\ matched.pairs[a][1] # matched.pairs[b][1]
                       /\ matched.pairs[a][2] # matched.pairs[b][2]
        /\ \A i \in DOMAIN matched.segments :
              matched.segments[i].is_matched <=>
                  \E a \in DOMAIN matched.pairs : matched.pairs[a][1] = i - 1
        /\ \A a, b \in DOMAIN matched.match_results :
              a # b => matched.match_results[a].segment_id
                         # matched.match_results[b].segment_id

\* three parcels of equal area matched against two records
C1_Witness ==
    /\ matched.by = "ror_engine"
    /\ Len(segments) = 3 /\ Len(engine.ror_records) = 2
    /\ \A i \in DOMAIN segments : segments[i].shape = <<10, 10>>
    /\ Len(matched.pairs) = 2

\* C2: every accepted match has cost < reject_threshold (an assignment at
\* or above it is discarded and both sides are left unmatched).
C2_AcceptedBelowRejectThreshold ==
    /\ matched.by = "ror_engine" =>
          \A i \in DOMAIN matched.segments :
              matched.segments[i].is_matched =>
                  matched.segments[i].area_mismatch < reject_threshold
    /\ matched.by = "segmentation" =>
          \A k \in DOMAIN matched.matches :
              matched.matches[k][1] # NaN =>
                  matched.cost_matrix[<<matched.matches[k][2], matched.matches[k][1]>>]
                      < reject_threshold

\* C9: with an empty record set matching and scoring complete; every parcel
\* is left unmatched (no record link, is_matched false, match confidence 0)
\* and is scored and routed with area_match 0.5, has_ror_link 0 and
\* count_consistency 0.5.
C9_EmptyRecordSet ==
    (engine.expected_count = 0 /\ matched.by = "ror_engine") =>
        /\ matched.status = "ok"
        /\ Len(matched.segments) = Len(segments)
        /\ Len(matched.match_results) = Len(segments)
        /\ \A i \in DOMAIN matched.segments :
              /\ ~matched.segments[i].is_matched
              /\ matched.segments[i].ror_survey_no = None
              /\ matched.match_results[i].match_confidence = 0
        /\ scored.status # "none" =>
              /\ scored.status = "ok"
              /\ Len(scored.parcels) = Len(segments)
              /\ \A i \in DOMAIN scored.parcels :
                    /\ scored.parcels[i].confidence \in 0 .. Fp.one
                    /\ scored.parcels[i].routing \in
                          {"AUTO_APPROVE", "DESKTOP_REVIEW", "FIELD_VERIFICATION"}
                    /\ scored.parcels[i].confidence_factors.area_match = Fp.one \div 2
                    /\ scored.parcels[i].confidence_factors.has_ror_link = 0
                    /\ scored.parcels[i].confidence_factors.count_consistency
                          = Fp.one \div 2

\* two parcels matched against no record and scored
C9_Witness ==
    /\ engine.expected_count = 0
    /\ Len(segments) = 2
    /\ matched.by = "ror_engine"
    /\ scored.status = "ok"

\* three parcels of area 100 and records of areas 100, 100 and 5000
C10_Scenario ==
    /\ Len(segments) = 3
    /\ \A i \in DOMAIN segments : ShapeArea(segments[i].shape) = 100
    /\ Len(engine.ror_records) = 3
    /\ Cardinality({ j \in 1 .. 3 : engine.ror_records[j].expected_area_sqm = 100 }) = 2
    /\ Cardinality({ j \in 1 .. 3 : engine.ror_records[j].expected_area_sqm = 5000 }) = 1

\* C10 as stated: in the scenario the 5000 record is left unmatched and the
\* other two records are matched with cost 0.
C10_LargeRecordUnmatched ==
    (C10_Scenario /\ matched.by = "ror_engine") =>
        \A a \in DOMAIN matched.pairs :
            /\ engine.ror_records[matched.pairs[a][2] + 1].expected_area_sqm = 100
            /\ matched.match_results[a].area_mismatch = 0

\* C10: in the scenario all three records are matched: the two records of
\* area 100 with cost 0, the 5000 record with cost 0.98 (below the bound of
\* 2.0, which match_segments_to_ror does not apply in any case) and match
\* confidence 0.02; the segmenter's matcher accepts the same three matches.
C10_AllThreeMatched ==
    /\ (C10_Scenario /\ matched.by = "ror_engine") =>
          /\ Len(matched.pairs) = 3
          /\ \A i \in DOMAIN matched.segments : matched.segments[i].is_matched
          /\ \A a \in DOMAIN matched.pairs :
                LET r == engine.ror_records[matched.pairs[a][2] + 1].expected_area_sqm
                    m == matched.match_results[a]
                IN IF r = 100
                   THEN m.area_mismatch = 0 /\ m.match_confidence = Fp.one
                   ELSE m.area_mismatch = 980 /\ m.match_confidence = 20
    /\ (C10_Scenario /\ matched.by = "segmentation") =>
          /\ Len(matched.matches) = 3
          /\ \A k \in DOMAIN matched.matches : matched.matches[k][1] # NaN

\* the scenario, matched by the engine
C10_Witness ==
    /\ C10_Scenario
    /\ matched.by = "ror_engine"
    /\ \E a \in DOMAIN matched.pairs :
          matched.match_results[a].ror_area_sqm = 5000

\* C27: match_segments_to_ror returns exactly one MatchResult per input
\* parcel, with distinct segment_ids.  The result of a matched parcel carries
\* its record's identity, the cost-matrix entry as area_mismatch and
\* match_confidence = max(0, 1 - min(cost, 1)), a value in [0,1]; the result
\* of an unmatched parcel has no record, area_mismatch 1.0 and
\* match_confidence 0.0; is_matched is true exactly for the rows that have an
\* area_mismatch value.
C27_OneResultPerParcel ==
    matched.by = "ror_engine" =>
        LET results == matched.match_results
            n == Len(segments)
        IN /\ Len(results) = n
           /\ { results[k].segment_id : k \in DOMAIN results } = 0 .. n - 1
           /\ \A i \in 1 .. n :
                 matched.segments[i].is_matched
                     <=> matched.segments[i].area_mismatch # NaN
           /\ \A k \in DOMAIN results :
                 LET m == results[k]
                     i == m.segment_id + 1
                 IN IF matched.segments[i].is_matched
                    THEN \E a \in DOMAIN matched.pairs :
                           LET ror == engine.ror_records[matched.pairs[a][2] + 1]
                               cost == AreaCost(ShapeArea(segments[i].shape),
                                                ror.expected_area_sqm)
                           IN /\ matched.pairs[a][1] = m.segment_id
                              /\ m.ror_survey_no = ror.survey_no
                              /\ m.ror_area_sqm = ror.expected_area_sqm
                              /\ m.area_mismatch = cost
                              /\ matched.segments[i].area_mismatch = cost
                              /\ m.match_confidence
                                    = Max2(0, Fp.one - Min2(cost, Fp.one))
                              /\ m.match_confidence \in 0 .. Fp.one
                    ELSE /\ m.ror_survey_no = None
                         /\ m.ror_area_sqm = NaN
                         /\ m.area_mismatch = Fp.one
                         /\ m.match_confidence = 0

\* three parcels against two records: a match of cost 2.0 (match confidence
\* 0) and a parcel left unmatched
C27_Witness ==
    /\ matched.by = "ror_engine"
    /\ Len(segments) = 3 /\ Len(matched.pairs) = 2
    /\ \E k \in DOMAIN matched.match_results :
          /\ matched.match_results[k].area_mismatch = 2 * Fp.one
          /\ matched.match_results[k].match_confidence = 0

ExtraTypes == { "EXTRA_PARCEL", "EXTRA_SEGMENT" }
MissingTypes == { "MISSING_RECORD", "MISSING_PARCEL", "UNMATCHED_ROR" }

\* the positions of the records no parcel was matched to
UnmatchedRecords ==
    { j \in DOMAIN engine.ror_records :
        \A k \in DOMAIN matched.pairs : matched.pairs[k][2] # j - 1 }

\* list has one HIGH entry for every parcel without a record and one for
\* every record without a parcel, and no other entry of these kinds
OnePerUnmatched(list) ==
    /\ \A k \in DOMAIN list :
          list[k].type \in ExtraTypes \cup MissingTypes => list[k].severity = "HIGH"
    /\ \A i \in DOMAIN matched.segments :
          Len(SelectSeq(list, LAMBDA c : c.type \in ExtraTypes /\ c.parcel_id = i - 1))
              = IF matched.segments[i].is_matched THEN 0 ELSE 1
    /\ \A s \in { list[k].survey_no : k \in DOMAIN list }
                  \cup { engine.ror_records[j].survey_no : j \in DOMAIN engine.ror_records } :
          Len(SelectSeq(list, LAMBDA c : c.type \in MissingTypes /\ c.survey_no = s))
              = Cardinality({ j \in UnmatchedRecords :
                                engine.ror_records[j].survey_no = s })

\* C17: the conflict list and the violation list hold exactly one HIGH entry
\* for each parcel with no matched record and exactly one HIGH entry for each
\* record with no matched parcel, and none for matched parcels and records.
C17_OnePerUnmatched ==
    /\ conflicts.status = "ok" => OnePerUnmatched(conflicts.list)
    /\ violations.status = "ok" => OnePerUnmatched(violations.list)

\* the severities of the AREA_MISMATCH entries of list for the parcel i - 1
MismatchEntries(list, i) ==
    SelectSeq(list, LAMBDA c : c.type = "AREA_MISMATCH" /\ c.parcel_id = i - 1)

\* list has, for every parcel matched to a record of a positive area, one
\* HIGH entry if |area - record area| / record area > 0.20, one MEDIUM entry
\* if it is > 0.05 and not > 0.20, and none otherwise; and never two
\* entries for a parcel
MismatchBySeverity(list) ==
    \A i \in DOMAIN matched.segments :
        LET row == matched.segments[i]
            entries == MismatchEntries(list, i)
            deviation == Abs(row.area_sqm - row.ror_area_sqm)
        IN /\ Len(entries) <= 1
           /\ ~row.is_matched => Len(entries) = 0
           /\ (row.is_matched /\ row.ror_area_sqm > 0) =>
                 IF 5 * deviation > row.ror_area_sqm
                 THEN Len(entries) = 1 /\ entries[1].severity = "HIGH"
                 ELSE IF 20 * deviation > row.ror_area_sqm
                 THEN Len(entries) = 1 /\ entries[1].severity = "MEDIUM"
                 ELSE Len(entries) = 0

\* C18: for every matched parcel the conflict list and the violation list
\* hold one HIGH AREA_MISMATCH if its relative area deviation is > 0.20, one
\* MEDIUM AREA_MISMATCH if it is > 0.05 but not > 0.20, and none otherwise.
C18_AreaMismatchSeverity ==
    /\ conflicts.status = "ok" => MismatchBySeverity(conflicts.list)
    /\ violations.status = "ok" => MismatchBySeverity(violations.list)

\* a detector has run on a frame with a parcel whose deviation is exactly 0.20
C18_Witness ==
    /\ conflicts.status = "ok" \/ violations.status = "ok"
    /\ \E i \in DOMAIN matched.segments :
          /\ matched.segments[i].is_matched
          /\ matched.segments[i].ror_area_sqm > 0
          /\ 5 * Abs(matched.segments[i].area_sqm - matched.segments[i].ror_area_sqm)
                = matched.segments[i].ror_area_sqm

\* list has one MEDIUM COUNT_HIGH entry exactly when the parcel count is
\* above expected * (1 + 0.3), one MEDIUM COUNT_LOW entry exactly when it is
\* below expected * (1 - 0.3), and no other entry of these types
CountBand(list) ==
    LET count == Len(matched.segments)
        expected == Len(engine.ror_records)
        Entries(type) == SelectSeq(list, LAMBDA c : c.type = type)
    IN /\ \A k \in DOMAIN list :
             list[k].type \in {"COUNT_HIGH", "COUNT_LOW"} => list[k].severity = "MEDIUM"
       /\ Len(Entries("COUNT_HIGH")) = IF 10 * count > 13 * expected THEN 1 ELSE 0
       /\ Len(Entries("COUNT_LOW")) = IF 10 * count < 7 * expected THEN 1 ELSE 0

\* C19: the conflict report (of ConflictDetector.detect_conflicts and of
\* RORConstraintEngine.detect_violations) holds a MEDIUM COUNT_HIGH entry
\* exactly when the parcel count is above the band around the expected count
\* and a MEDIUM COUNT_LOW entry exactly when it is below, and never both.
C19_CountBand ==
    /\ conflicts.status = "ok" => CountBand(conflicts.list)
    /\ violations.status = "ok" => CountBand(violations.list)


(***************************************************************************)
(* The batch specification: one run of a driver over one batch of parcels. *)
(* The drivers are process_village (precompute_demo.py),                   *)
(* BoundaryAIPipeline.process_image with a ROR file (pipeline.py) and      *)
(* process_parcels with ROR data (ui/app.py).  batch.stages is the list of *)
(* the stages that have started, in the order of their start; every stage  *)
(* is a synchronous call, so it has completed when the next one starts.    *)
(***************************************************************************)
Drivers == { "process_village", "process_image", "process_parcels" }

InitBatch ==
    /\ segments \in UNION { [1 .. n -> [shape : SegmentShapes]] : n \in 0 .. MaxSegments }
    /\ engine \in { RORConstraintEngine(ror_records) : ror_records \in RecordLists }
    /\ matched = NoMatch
    /\ scored = NoScores
    /\ batch \in { [driver |-> d, pc |-> "match", stages |-> <<>>, error |-> None] :
                   d \in Drivers }
    /\ solved = {}
    /\ rematched = NoMatch
    /\ IdleTopo
    /\ IdleScore
    /\ IdleConflict
    /\ IdleStages

\* the first stage of every driver:
\* gdf, match_results = constraint_engine.match_segments_to_ror(gdf)
BatchMatch ==
    /\ batch.pc = "match"
    /\ matched' \in match_segments_to_ror(segments, engine, solved)
    /\ solved' = solved \cup {SolverCall(segments, engine, matched'.pairs)}
    /\ batch' = [batch EXCEPT
                   !.stages = @ \o <<"RecordMatcher">>,
                   !.pc = IF batch.driver = "process_image" THEN "done" ELSE "score"]
    /\ UNCHANGED <<stageVars, engine, segments, scored, rematched,
                   topoVars, scoreVars, conflictVars>>

\* process_parcels: scorer.score_all_parcels(gdf, expected_count, min, max);
\* process_village: scorer.score_parcel(row, village_stats) for every row,
\* with a village_stats that has no 'min_area_sqm' and no 'max_area_sqm'
BatchScore ==
    /\ batch.pc = "score"
    /\ \E st \in IF batch.driver = "process_village" THEN { <<0, Inf>> }
                 ELSE ExtentStatistics(engine) \ { <<0, Inf>> } :
          scored' = [status |-> "ok",
                     parcels |-> score_all_parcels(matched.segments,
                        engine.expected_count, st[1], st[2],
                        ScorerInit(NoWeights, AUTO_APPROVE_THRESHOLD,
                                   DESKTOP_REVIEW_THRESHOLD))]
    /\ batch' = [batch EXCEPT !.stages = @ \o <<"ConfidenceScorer">>,
                              !.pc = "conflicts"]
    /\ UNCHANGED <<stageVars, engine, segments, matched, solved, rematched,
                   topoVars, scoreVars, conflictVars>>

\* process_parcels: conflicts = detector.detect_conflicts(gdf, engine.ror_records)
BatchDetectConflicts ==
    /\ batch.pc = "conflicts"
    /\ batch.driver = "process_parcels"
    /\ conflicts' \in detect_conflicts(matched.segments, engine.ror_records,
                                       ConflictDetector)
    /\ batch' = [batch EXCEPT !.stages = @ \o <<"ConflictDetector">>,
                              !.pc = "done"]
    /\ UNCHANGED <<stageVars, violations, summary, engine, segments, matched, scored,
                   solved, rematched, topoVars, scoreVars>>

\* process_village: detector.detect_all_conflicts(gdf, ...), a method that
\* ConflictDetector does not have; the AttributeError ends the run in the
\* "except Exception" branch, before TopologyFixer().validate(gdf)
BatchDetectAllConflicts ==
    /\ batch.pc = "conflicts"
    /\ batch.driver = "process_village"
    /\ batch' = [batch EXCEPT !.pc = "done", !.error = "AttributeError"]
    /\ UNCHANGED <<stageVars, engine, segments, matched, scored, solved, rematched,
                   topoVars, scoreVars, conflictVars>>

NextBatch ==
    \/ BatchMatch
    \/ BatchScore
    \/ BatchDetectConflicts
    \/ BatchDetectAllConflicts

SpecBatch == InitBatch /\ [][NextBatch]_vars

\* stage a has started before position k of the stage list
StartedBefore(a, k) == \E j \in 1 .. k - 1 : batch.stages[j] = a

\* C12: in every batch run RecordMatcher starts only after TopologyFixer,
\* ConfidenceScorer only after RecordMatcher and ConflictDetector only after
\* ConfidenceScorer.
C12_StagesInOrder ==
    \A k \in DOMAIN batch.stages :
        /\ batch.stages[k] = "RecordMatcher" => StartedBefore("TopologyFixer", k)
        /\ batch.stages[k] = "ConfidenceScorer" => StartedBefore("RecordMatcher", k)
        /\ batch.stages[k] = "ConflictDetector" => StartedBefore("ConfidenceScorer", k)

MaxConflicts == 3

ConflictDicts ==
    [type : { None, "AREA_MISMATCH", "EXTRA_PARCEL", "MISSING_PARCEL" },
     severity : { None, "HIGH", "MEDIUM", "LOW" },
     parcel_id : { NaN },
     survey_no : { None }]

InitSummary ==
    /\ conflicts \in { [status |-> "ok", list |-> l] :
                         l \in UNION { [1 .. n -> ConflictDicts] : n \in 0 .. MaxConflicts } }
    /\ violations = NoList
    /\ summary = NoSummary
    /\ engine = <<>>
    /\ segments = <<>>
    /\ matched = NoMatch
    /\ scored = NoScores
    /\ IdleTopo
    /\ IdleScore
    /\ IdleRun
    /\ IdleStages

NextSummary == GetConflictSummary

SpecSummary == InitSummary /\ [][NextSummary]_vars

\* C20: the summary of a conflict list has the list's length as total, and
\* both its counts by type and its counts by severity (HIGH, MEDIUM, LOW)
\* add up to total.
C20_SummaryConsistent ==
    summary.status = "ok" =>
        /\ summary.total = Len(conflicts.list)
        /\ SumOver(DOMAIN summary.by_type, summary.by_type) = summary.total
        /\ DOMAIN summary.by_severity = {"HIGH", "MEDIUM", "LOW"}
        /\ SumOver(DOMAIN summary.by_severity, summary.by_severity) = summary.total

\* the summary of a list with two types, one entry without a type and one
\* without a severity
C20_Witness ==
    /\ summary.status = "ok"
    /\ Cardinality(DOMAIN summary.by_type) >= 2
    /\ \E k \in DOMAIN conflicts.list : conflicts.list[k].type = None
    /\ \E k \in DOMAIN conflicts.list : conflicts.list[k].severity = None


(***************************************************************************)
(* ParcelEvaluator (evaluation.py).  A frame is a sequence of geometries   *)
(* of the grid with the index 0..n-1; an IoU is a multiple of 1/Iou.one,   *)
(* which is exact for unions of up to six cells.  The boundary distance    *)
(* and the means and medians of the result are left out.                   *)
(***************************************************************************)
Iou == [one |-> 60]

\* the intersection over the sum of the two areas
ComputeIouOverSum(geom1, geom2) ==
    LET intersection == Area(geom1 \cap geom2)
        total == Area(geom1) + Area(geom2)
    IN IF total = 0 THEN 0 ELSE (intersection * Iou.one) \div total

\* ParcelEvaluator._compute_iou(geom1, geom2)
_compute_iou(geom1, geom2) ==
    LET intersection == Area(geom1 \cap geom2)
        union == Area(geom1 \cup geom2)
    IN IF union = 0 THEN 0 ELSE (intersection * Iou.one) \div union

\* a comparison that ignores the threshold
AcceptsAnyOverlap(iou, iou_threshold) == iou > 0

\* "if iou >= self.iou_threshold"
Accepts(iou, iou_threshold) == iou >= iou_threshold

\* ParcelEvaluator._match_parcels(detected, ground_truth): the set of its
\* outcomes, one for every optimal assignment; a match is
\* <<gt_idx, det_idx or NaN, iou>>
_match_parcels(detected, ground_truth, iou_threshold, memo) ==
    LET n_gt == Len(ground_truth)
        n_det == Len(detected)
        iou_matrix == [p \in (0 .. n_gt - 1) \X (0 .. n_det - 1) |->
                         _compute_iou(ground_truth[p[1] + 1], detected[p[2] + 1])]
        cost_matrix == [p \in DOMAIN iou_matrix |-> Iou.one - iou_matrix[p]]
        Outcome(A) ==
            LET pairs == PairsInOrder(A, 1)
                assigned == [k \in 1 .. Len(pairs) |->
                    IF Accepts(iou_matrix[pairs[k]], iou_threshold)
                    THEN <<pairs[k][1], pairs[k][2], iou_matrix[pairs[k]]>>
                    ELSE <<pairs[k][1], NaN, 0>>]
                matched_gt == { p[1] : p \in A }
                RECURSIVE Rest(_)
                Rest(i) ==
                    IF i >= n_gt THEN <<>>
                    ELSE (IF i \in matched_gt THEN <<>> ELSE << <<i, NaN, 0>> >>)
                            \o Rest(i + 1)
            IN [status |-> "ok", iou_matrix |-> iou_matrix,
                cost_matrix |-> cost_matrix, assignment |-> A,
                matches |-> assigned \o Rest(0)]
    IN { Outcome(A) : A \in Solver(cost_matrix, n_gt, n_det, memo) }

\* ParcelEvaluator._empty_result(config_name, flags, n_gt)
_empty_result(n_gt) ==
    [status |-> "ok", total_ground_truth |-> n_gt, total_detected |-> 0,
     matched_count |-> 0, match_rate |-> 0, iou_above_50 |-> 0,
     parcel_metrics |-> <<>>]

\* ParcelEvaluator.evaluate(detected, ground_truth): the set of its outcomes,
\* each with the calls of the solver it made
evaluate(detected, ground_truth, iou_threshold, memo) ==
    IF Len(detected) = 0
    THEN { [result |-> _empty_result(Len(ground_truth)), calls |-> {}] }
    ELSE { LET parcel_metrics == [k \in DOMAIN m.matches |->
                   LET gt_geom == ground_truth[m.matches[k][1] + 1]
                       det_idx == m.matches[k][2]
                   IN IF det_idx # NaN
                      THEN [parcel_id |-> m.matches[k][1],
                            iou |-> m.matches[k][3],
                            area_error |->
                               IF Area(gt_geom) > 0
                               THEN (Abs(Area(detected[det_idx + 1]) - Area(gt_geom))
                                        * Fp.one) \div Area(gt_geom)
                               ELSE Fp.one,
                            matched |-> TRUE]
                      ELSE [parcel_id |-> m.matches[k][1], iou |-> 0,
                            area_error |-> Fp.one, matched |-> FALSE]]
               matched_metrics == SelectSeq(parcel_metrics, LAMBDA x : x.matched)
           IN [result |->
                 IF Len(parcel_metrics) = 0 THEN ZeroDivisionError
                 ELSE [status |-> "ok",
                       total_ground_truth |-> Len(ground_truth),
                       total_detected |-> Len(detected),
                       matched_count |-> Len(matched_metrics),
                       match_rate |->
                          IF Len(ground_truth) > 0
                          THEN (Len(matched_metrics) * Fp.one) \div Len(ground_truth)
                          ELSE 0,
                       iou_above_50 |->
                          (Len(SelectSeq(parcel_metrics,
                                         LAMBDA x : 2 * x.iou > Iou.one)) * Fp.one)
                              \div Len(parcel_metrics),
                       parcel_metrics |-> parcel_metrics],
               calls |-> {[cost |-> m.cost_matrix, assignment |-> m.assignment]}] :
             m \in _match_parcels(detected, ground_truth, iou_threshold, memo) }

(***************************************************************************)
(* The evaluator specification: a caller constructs a ParcelEvaluator and  *)
(* hands it a frame of detected parcels and a frame of ground-truth        *)
(* parcels, either of which can be empty or hold an empty geometry.        *)
(***************************************************************************)
MaxParcels == 2

EvalGeoms == { {}, {0}, {0, 1}, {1, 2}, {0, 1, 2} }

EvalFrames == UNION { [1 .. n -> EvalGeoms] : n \in 0 .. MaxParcels }

\* iou_threshold: the default 0.3, and 0.5
IouThresholds == { (3 * Iou.one) \div 10, Iou.one \div 2 }

InitEval ==
    /\ evalArgs \in [iou_threshold : IouThresholds, detected : EvalFrames,
                     ground_truth : EvalFrames]
    /\ evaluation = [matching |-> [status |-> "none"], result |-> [status |-> "none"]]
    /\ IdleTopo
    /\ IdleScore
    /\ IdleMatch
    /\ IdleConflict
    /\ IdleRun
    /\ IdleRoute
    /\ constrained = NoConstrained
    /\ IdleHeap

\* matches = evaluator._match_parcels(detected, ground_truth)
MatchParcels ==
    /\ evaluation.matching.status = "none"
    /\ \E m \in _match_parcels(evalArgs.detected, evalArgs.ground_truth,
                                evalArgs.iou_threshold, solved) :
          /\ evaluation' = [evaluation EXCEPT !.matching = m]
          /\ solved' = solved \cup {[cost |-> m.cost_matrix,
                                     assignment |-> m.assignment]}
    /\ UNCHANGED <<heapVars, evalArgs, rematched, batch, routeVars, constrained, topoVars,
                   scoreVars, matchVars, conflictVars>>

\* result = evaluator.evaluate(detected, ground_truth)
Evaluate ==
    /\ evaluation.result.status = "none"
    /\ \E e \in evaluate(evalArgs.detected, evalArgs.ground_truth,
                          evalArgs.iou_threshold, solved) :
          /\ evaluation' = [evaluation EXCEPT !.result = e.result]
          /\ solved' = solved \cup e.calls
    /\ UNCHANGED <<heapVars, evalArgs, rematched, batch, routeVars, constrained, topoVars,
                   scoreVars, matchVars, conflictVars>>

NextEval == MatchParcels \/ Evaluate

SpecEval == InitEval /\ [][NextEval]_vars

\* the pairs <<i, j>> of a ground-truth row and a detected row, 0-based
EvalPairs ==
    (0 .. Len(evalArgs.ground_truth) - 1) \X (0 .. Len(evalArgs.detected) - 1)

\* C21 as stated: IoU(X, X) = 1.0 for every polygon X, IoU(X, Y) = 0 for
\* disjoint X and Y, and the IoU always lies in [0,1].
C21_IouOfEveryPolygon ==
    evaluation.matching.status = "ok" =>
        \A p \in EvalPairs :
            LET X == evalArgs.ground_truth[p[1] + 1]
                Y == evalArgs.detected[p[2] + 1]
                iou == evaluation.matching.iou_matrix[p]
            IN /\ X = Y => iou = Iou.one
               /\ X \cap Y = {} /\ X # Y => iou = 0
               /\ 0 <= iou /\ iou <= Iou.one

\* C21: IoU(X, X) = 1.0 for every polygon X of a positive area and 0.0 for
\* an empty one, IoU(X, Y) = 0 for disjoint X and Y, and the IoU always lies
\* in [0,1].
C21_IouOfPositiveArea ==
    evaluation.matching.status = "ok" =>
        \A p \in EvalPairs :
            LET X == evalArgs.ground_truth[p[1] + 1]
                Y == evalArgs.detected[p[2] + 1]
                iou == evaluation.matching.iou_matrix[p]
            IN /\ (X = Y /\ Area(X) > 0) => iou = Iou.one
               /\ (X = Y /\ Area(X) = 0) => iou = 0
               /\ X \cap Y = {} => iou = 0
               /\ 0 <= iou /\ iou <= Iou.one

\* the IoU of a polygon with itself and of two disjoint polygons in one
\* matrix
C21_Witness ==
    /\ evaluation.matching.status = "ok"
    /\ \E p, q \in EvalPairs :
          /\ evalArgs.ground_truth[p[1] + 1] = {0, 1}
          /\ evalArgs.detected[p[2] + 1] = {0, 1}
          /\ evaluation.matching.iou_matrix[p] = Iou.one
          /\ evalArgs.ground_truth[q[1] + 1] = {0}
          /\ evalArgs.detected[q[2] + 1] = {1, 2}
          /\ evaluation.matching.iou_matrix[q] = 0

\* C22: the matching is one-to-one (every detected parcel in at most one
\* match, every ground-truth parcel in exactly one entry), and a pair is
\* reported as matched only if its IoU >= iou_threshold: every assigned pair
\* with IoU < iou_threshold is reported unmatched.
C22_MatchingOneToOne ==
    evaluation.matching.status = "ok" =>
        LET m == evaluation.matching.matches
        IN /\ Len(m) = Len(evalArgs.ground_truth)
           /\ \A a, b \in DOMAIN m :
                 a # b => /\ m[a][1] # m[b][1]
                          /\ m[a][2] # NaN => m[a][2] # m[b][2]
           /\ \A a \in DOMAIN m :
                 IF m[a][2] # NaN
                 THEN /\ <<m[a][1], m[a][2]>> \in EvalPairs
                      /\ m[a][3] = _compute_iou(evalArgs.ground_truth[m[a][1] + 1],
                                                evalArgs.detected[m[a][2] + 1])
                      /\ m[a][3] >= evalArgs.iou_threshold
                 ELSE m[a][3] = 0
           /\ \A p \in evaluation.matching.assignment :
                 evaluation.matching.iou_matrix[p] < evalArgs.iou_threshold =>
                     \E a \in DOMAIN m : m[a][1] = p[1] /\ m[a][2] = NaN

\* threshold 0.5: a pair with IoU exactly 0.5 is matched and a pair with IoU
\* 1/3 is assigned but reported unmatched
C22_Witness ==
    /\ evaluation.matching.status = "ok"
    /\ evalArgs.iou_threshold = Iou.one \div 2
    /\ \E a \in DOMAIN evaluation.matching.matches :
          /\ evaluation.matching.matches[a][2] # NaN
          /\ evaluation.matching.matches[a][3] = Iou.one \div 2
    /\ \E p \in evaluation.matching.assignment :
          evaluation.matching.iou_matrix[p] = Iou.one \div 3

\* C28: evaluate returns a result for all inputs, also for an empty detected
\* frame and for an empty ground-truth frame; parcel_metrics has one entry
\* for every ground-truth parcel, matched_count <= min(total_detected,
\* total_ground_truth), and match_rate = matched_count / total_ground_truth
\* lies in [0,1].
C28_ResultConsistent ==
    evaluation.result.status # "none" =>
        /\ evaluation.result.status = "ok"
        /\ LET r == evaluation.result
           IN /\ r.total_ground_truth = Len(evalArgs.ground_truth)
              /\ r.total_detected = Len(evalArgs.detected)
              /\ Len(r.parcel_metrics) = r.total_ground_truth
              /\ r.matched_count <= Min2(r.total_detected, r.total_ground_truth)
              /\ r.total_ground_truth > 0 =>
                    r.match_rate = (r.matched_count * Fp.one) \div r.total_ground_truth
              /\ 0 <= r.match_rate /\ r.match_rate <= Fp.one


(***************************************************************************)
(* Count pre-processing: RORConstraintEngine.apply_count_constraint        *)
(* (ror_engine.py) on a frame of grid geometries.  merge_threshold is the  *)
(* fraction [num, den]; "processed" lists the labels of the small segments *)
(* in the order in which the loop of _merge_small_segments takes them.     *)
(***************************************************************************)
\* rows in ascending order of area (a stable sort)
RECURSIVE SortedByArea(_)
SortedByArea(rows) ==
    IF Len(rows) = 0 THEN <<>>
    ELSE LET i == CHOOSE k \in Positions(rows) :
                    /\ \A j \in Positions(rows) : Area(rows[k].geom) <= Area(rows[j].geom)
                    /\ \A j \in 1 .. k - 1 : Area(rows[j].geom) > Area(rows[k].geom)
         IN <<rows[i]>> \o SortedByArea(SelectSeq(rows, LAMBDA r : r # rows[i]))

\* RORConstraintEngine._merge_small_segments(segments, min_area), with the
\* fraction "threshold" for min_area
_merge_small_segments(rows, threshold) ==
    LET IsSmall(r) == Area(r.geom) * threshold.den < threshold.num
        small_segments == SelectSeq(rows, IsSmall)
        large_segments == SelectSeq(rows, LAMBDA r : ~IsSmall(r))
    IN IF Len(small_segments) = 0
       THEN [rows |-> rows, processed |-> <<>>]
       ELSE [rows |-> ResetIndex(MergeSlivers(large_segments, small_segments, 1)),
             processed |-> [k \in Positions(small_segments) |-> small_segments[k].label]]

\* RORConstraintEngine._flag_for_splitting(segments): the needs_split column
_flag_for_splitting(rows, eng) ==
    [i \in Positions(rows) |-> 2 * Area(rows[i].geom) > 3 * eng.max_expected_area]

\* RORConstraintEngine.apply_count_constraint(segments): "same_object" says
\* that the frame returned is the caller's own frame object
apply_count_constraint(rows, eng) ==
    LET merge_threshold == [num |-> eng.min_expected_area, den |-> 2]
        current_count == Len(rows)
    IN IF current_count * Fp.one > eng.expected_count * (Fp.one + eng.count_tolerance)
       THEN LET merged == _merge_small_segments(rows, merge_threshold)
            IN [status |-> "ok", rows |-> merged.rows, processed |-> merged.processed,
                needs_split |-> <<>>, same_object |-> FALSE]
       ELSE IF current_count * Fp.one
                 < eng.expected_count * (Fp.one - eng.count_tolerance)
       THEN [status |-> "ok", rows |-> rows, processed |-> <<>>,
             needs_split |-> _flag_for_splitting(rows, eng), same_object |-> FALSE]
       ELSE [status |-> "ok", rows |-> rows, processed |-> <<>>,
             needs_split |-> <<>>, same_object |-> TRUE]

(***************************************************************************)
(* The count specification: a caller hands apply_count_constraint a frame  *)
(* of up to MaxFrame parcels: parcels of one and two cells, which are      *)
(* small for records of area 40, and of three and four cells.              *)
(***************************************************************************)
MaxFrame == 4

CountGeoms == { {2}, {5}, {3, 4}, {0, 1, 2}, {0, 1, 3, 4} }

RECURSIVE CountFrames(_)
CountFrames(n) ==
    IF n = 0 THEN {<<>>}
    ELSE { Append(f, [label |-> n - 1, geom |-> g]) :
             f \in CountFrames(n - 1), g \in CountGeoms }

\* engines for one record of area 40 or 20, for three records of area 40
\* and for no record
CountEngines ==
    { RORConstraintEngine([j \in 1 .. m[1] |->
          [survey_no |-> SurveyNos[j], expected_area_sqm |-> m[2]]]) :
        m \in { <<1, 40>>, <<1, 20>>, <<3, 40>>, <<0, 0>> } }

InitCount ==
    /\ gdf \in UNION { CountFrames(n) : n \in 0 .. MaxFrame }
    /\ engine \in CountEngines
    /\ constrained = NoConstrained
    /\ fixer = <<>> /\ fixed = NoResult /\ report = NoReport
    /\ segments = <<>> /\ matched = NoMatch /\ scored = NoScores
    /\ IdleScore
    /\ IdleConflict
    /\ IdleRun
    /\ IdleRoute
    /\ IdleEval
    /\ IdleHeap

\* constrained = engine.apply_count_constraint(gdf)
ApplyCountConstraint ==
    /\ constrained.status = "none"
    /\ constrained' = apply_count_constraint(gdf, engine)
    /\ UNCHANGED <<heapVars, gdf, fixer, fixed, report, engine, segments, matched, scored,
                   routeVars, evalVars, scoreVars, conflictVars, runVars>>

NextCount == ApplyCountConstraint

SpecCount == InitCount /\ [][NextCount]_vars

\* the count is above the band: count > expected_count * (1 + count_tolerance)
CountTooHigh ==
    Len(gdf) * Fp.one > engine.expected_count * (Fp.one + engine.count_tolerance)

\* the parcels of the input below min_expected_area * 0.5, by position
SmallParcels == { i \in Positions(gdf) : 2 * Area(gdf[i].geom) < engine.min_expected_area }

\* C25: apply_count_constraint merges only when the count exceeds the
\* expected count by more than count_tolerance; then every parcel smaller
\* than min_expected_area * 0.5 that another parcel touches is merged into a
\* touching neighbour, the small parcels being processed in ascending order
\* of size (the result is that of the merge loop run over them in that
\* order); when the count is not too high no geometry is changed or removed.
C25_MergeWhenCountTooHigh ==
    constrained.status = "ok" =>
        LET out == constrained.rows
            order == constrained.processed
        IN /\ ~CountTooHigh =>
                 /\ Len(out) = Len(gdf)
                 /\ \A i \in Positions(gdf) : out[i].geom = gdf[i].geom
           /\ CountTooHigh =>
                 /\ \A i \in SmallParcels :
                       (\E j \in Positions(gdf) : Touches(gdf[j].geom, gdf[i].geom))
                           => \E k \in Positions(out) :
                                 /\ gdf[i].geom \subseteq out[k].geom
                                 /\ out[k].geom # gdf[i].geom
                 /\ \A a, b \in DOMAIN order :
                       a < b => Area(gdf[PosOf(gdf, order[a])].geom)
                                   <= Area(gdf[PosOf(gdf, order[b])].geom)
                 /\ SmallParcels # {} =>
                       out = ResetIndex(MergeSlivers(
                                SelectSeq(gdf, LAMBDA r : PosOf(gdf, r.label) \notin SmallParcels),
                                SortedByArea(SelectSeq(gdf,
                                    LAMBDA r : PosOf(gdf, r.label) \in SmallParcels)),
                                1))


(***************************************************************************)
(* The stage specification: the four stages that take a parcel frame and   *)
(* return one, called on the frame objects of a caller.  A frame object is *)
(* [kind, columns, rows]; heap[id] is the value of the object id.  Every   *)
(* stage starts with "x = x.copy()" and writes to the copy only, except    *)
(* that apply_count_constraint hands back the caller's own object when     *)
(* the count is within the band.                                           *)
(***************************************************************************)
\* an assignment "x = x" in the place of "x = x.copy()": the stage goes on
\* to write to the caller's object
ShareFrame(h, id) == [heap |-> h, id |-> id]

\* x.copy(): a new object with the value of the object id
CopyFrame(h, id) == [heap |-> Append(h, h[id]), id |-> Len(h) + 1]

\* the columns a stage assigns
CountColumns == {"area_sqm", "parcel_id", "needs_split"}
MatchColumns ==
    {"area_sqm", "ror_survey_no", "ror_area_sqm", "ror_owner", "ror_land_type",
     "area_mismatch", "is_matched"}
ScoreColumns == {"confidence", "routing", "confidence_factors", "explanation"}

StageGeoms == { {5}, {3, 4}, {0, 1, 2} }

InitStages ==
    /\ heap \in { << [kind |-> "parcels", columns |-> {"geometry"}, rows |-> p],
                     [kind |-> "segments", columns |-> {"geometry"}, rows |-> q] >> :
                   p \in UNION { { [i \in 1 .. n |-> [label |-> i - 1, geom |-> g[i]]] :
                                     g \in [1 .. n -> StageGeoms] } :
                                 n \in 0 .. MaxParcels },
                   q \in UNION { [1 .. n -> [shape : SegmentShapes]] :
                                 n \in 0 .. MaxParcels } }
    /\ calls = <<>>
    /\ engine \in { e \in CountEngines : e.expected_count > 0 /\ e.min_expected_area = 40 }
    /\ fixer \in { f \in FixerConfigs :
                      f.sliver_threshold = DefaultSliverThreshold
                      /\ f.gap_threshold = gap_threshold }
    /\ gdf = <<>> /\ fixed = NoResult /\ report = NoReport
    /\ segments = <<>> /\ matched = NoMatch /\ scored = NoScores
    /\ IdleScore
    /\ IdleConflict
    /\ IdleRun
    /\ IdleRoute
    /\ IdleEval
    /\ constrained = NoConstrained

\* the objects of a kind that stage has not been called on yet
Uncalled(stage, kind) ==
    { id \in DOMAIN heap :
        /\ heap[id].kind = kind
        /\ \A k \in DOMAIN calls : calls[k].stage # stage }

Called(stage, id, output) ==
    Append(calls, [stage |-> stage, input |-> id, before |-> heap[id],
                   output |-> output])

\* out = fixer.fix_topology(frame)
StageFixTopology ==
    /\ \E id \in Uncalled("fix_topology", "parcels"), copied \in BOOLEAN :
         \E o \in fix_topology(heap[id].rows, fixer, copied) :
            LET work == CopyFrame(heap, id)
            IN /\ heap' = IF o.status = "ok"
                          THEN [work.heap EXCEPT ![work.id].rows = o.rows]
                          ELSE work.heap
               /\ calls' = Called("fix_topology", id,
                                  IF o.status = "ok" THEN work.id ELSE 0)
    /\ UNCHANGED <<column, routes, evalVars, constrained, gdf, fixer, fixed, report,
                   scoreVars, matchVars, conflictVars, runVars>>

\* out = engine.apply_count_constraint(frame)
StageCountConstraint ==
    /\ \E id \in Uncalled("apply_count_constraint", "parcels") :
         LET o == apply_count_constraint(heap[id].rows, engine)
             work == CopyFrame(heap, id)
         IN IF o.same_object
            THEN /\ heap' = heap
                 /\ calls' = Called("apply_count_constraint", id, id)
            ELSE /\ heap' = [work.heap EXCEPT
                               ![work.id].rows = o.rows,
                               ![work.id].columns = @ \cup CountColumns]
                 /\ calls' = Called("apply_count_constraint", id, work.id)
    /\ UNCHANGED <<column, routes, evalVars, constrained, gdf, fixer, fixed, report,
                   scoreVars, matchVars, conflictVars, runVars>>

\* out, match_results = engine.match_segments_to_ror(frame)
StageMatch ==
    /\ \E id \in Uncalled("match_segments_to_ror", "segments") :
         \E o \in match_segments_to_ror(heap[id].rows, engine, solved) :
            LET work == CopyFrame(heap, id)
            IN /\ heap' = [work.heap EXCEPT
                             ![work.id].kind = "matched",
                             ![work.id].rows = o.segments,
                             ![work.id].columns = @ \cup MatchColumns]
               /\ calls' = Called("match_segments_to_ror", id, work.id)
               /\ solved' = solved \cup {SolverCall(heap[id].rows, engine, o.pairs)}
    /\ UNCHANGED <<column, routes, evalVars, constrained, rematched, batch,
                   topoVars, scoreVars, matchVars, conflictVars>>

\* out = ConfidenceScorer().score_all_parcels(frame, ...), on a matched frame
StageScore ==
    /\ \E id \in Uncalled("score_all_parcels", "matched") :
         \E st \in ExtentStatistics(engine) :
            LET work == CopyFrame(heap, id)
            IN /\ heap' = [work.heap EXCEPT
                             ![work.id].kind = "scored",
                             ![work.id].rows =
                                score_all_parcels(heap[id].rows, engine.expected_count,
                                    st[1], st[2],
                                    ScorerInit(NoWeights, AUTO_APPROVE_THRESHOLD,
                                               DESKTOP_REVIEW_THRESHOLD)),
                             ![work.id].columns = @ \cup ScoreColumns]
               /\ calls' = Called("score_all_parcels", id, work.id)
    /\ UNCHANGED <<column, routes, evalVars, constrained, gdf, fixer, fixed, report,
                   scoreVars, matchVars, conflictVars, runVars>>

NextStages ==
    \/ StageFixTopology
    \/ StageCountConstraint
    \/ StageMatch
    \/ StageScore

SpecStages == InitStages /\ [][NextStages]_vars

\* C24: no stage mutates its input in place: after fix_topology,
\* apply_count_constraint, match_segments_to_ror or score_all_parcels has
\* returned, the caller's input frame (its rows, geometries and columns) is
\* what it was before the call.
C24_InputUnchanged ==
    \A k \in DOMAIN calls : heap[calls[k].input] = calls[k].before

\* all four stages have returned, and each of them returned a frame that
\* differs from its input
C24_Witness ==
    /\ \A stage \in {"fix_topology", "apply_count_constraint",
                      "match_segments_to_ror", "score_all_parcels"} :
          \E k \in DOMAIN calls :
              /\ calls[k].stage = stage
              /\ calls[k].output \in DOMAIN heap
              /\ heap[calls[k].output] # calls[k].before

====
